---------------------------- MODULE Spec2Model ----------------------------
(***************************************************************************)
(* A model of the elrond-proxy-go processors: the observer traversals of   *)
(* the transaction processor (SendTransaction, SendMultipleTransactions,   *)
(* TransactionCostRequest, GetTransaction,                                 *)
(* GetTransactionByHashAndSenderAddress, GetTransactionStatus) and of the  *)
(* account processor (GetAccount, GetValueForKey).  One request is         *)
(* processed at a time and every upstream HTTP call is one step, its reply *)
(* chosen by the environment: `calls' records every upstream call with the *)
(* reply it got, `result' is what the method returned.  SpecConcurrent     *)
(* runs GetAccount in several request tasks at once, a call and its return *)
(* being separate steps.                                                   *)
(***************************************************************************)
EXTENDS Integers, Sequences, FiniteSets, TLC

VARIABLES observers,      \* the inventory: ShardID -> ordered list of observers
          allObservers,   \* the inventory's flat ordering
          pc,             \* "idle", the method in progress, or "done"
          op,             \* the method the current request called
          req,            \* the request's arguments
          cands,          \* the observer list the current loop ranges over
          idx,            \* position in cands of the next observer to call
          calls,          \* the upstream calls made so far, with their replies
          result,         \* the method's return values, once pc = "done"
          hit,            \* GetTransactionStatus: the first 200 reply and its observer
          txs,            \* SendMultipleTransactions: the caller's array (pointers' targets)
          groups,         \* SendMultipleTransactions: txsByShardID
          pending,        \* SendMultipleTransactions: shard groups not yet ranged over
          curShard,       \* SendMultipleTransactions: the group being posted
          totalTxsSent,   \* SendMultipleTransactions: accumulator
          txsHashes,      \* SendMultipleTransactions: accumulator, Index -> hash
          tasks,          \* concurrent requests: each request task's own locals
          lookups,        \* SendTransaction, TransactionCostRequest and
                          \* SendMultipleTransactions: the inventory lookups made so far
          written         \* the API handlers: the responses written to the gin context

vars == <<observers, allObservers, pc, op, req, cands, idx, calls, result,
          hit, txs, groups, pending, curShard, totalTxsSent, txsHashes, tasks,
          lookups, written>>

multiVars == <<txs, groups, pending, curShard, totalTxsSent, txsHashes>>

-----------------------------------------------------------------------------
(* Bounds *)

\* longest array a client passes to SendMultipleTransactions
MaxTxs == 3

\* number of requests served at the same time
MaxTasks == 2

-----------------------------------------------------------------------------
(* Constants of the program and of net/http *)

StatusOK == 200
StatusBadRequest == 400
StatusNotFound == 404
StatusRequestTimeout == 408
StatusInternalServerError == 500
\* core.MetachainShardId is the uint32 0xFFFFFFFF; TLC's integers are 32-bit signed,
\* so the model writes the same bit pattern, which no shard in 0..NumberOfShards-1 equals
MetachainShardId == -1
NumberOfShards == 2

\* an error value; Nil is Go's nil error
Error(type) == [type |-> type, message |-> "", reason |-> ""]
Nil == Error("nil")
UnknownStatusTx == "unknown"
ErrSendingRequest == Error("ErrSendingRequest")
ErrMissingObserver == Error("ErrMissingObserver")
ErrNoValidTransactionToSend == Error("ErrNoValidTransactionToSend")
ErrTransactionNotFound == Error("ErrTransactionNotFound")
ErrInvalidSenderAddress == Error("ErrInvalidSenderAddress")
ErrInvalidReceiverAddress == Error("ErrInvalidReceiverAddress")
ErrInvalidSignatureHex == Error("ErrInvalidSignatureHex")
ErrBadAddress == Error("ErrBadAddress")
ErrDecode == Error("ErrDecode")
ErrHex == Error("ErrHex")
\* errors the forwarder returns with an observer's reply
ErrBoom == Error("boom")
ErrUnmarshal == Error("unmarshal")
ErrTransport == Error("transport")

TransactionPath == "/transaction/"
TransactionSendPath == "/transaction/send"
MultipleTransactionsPath == "/transaction/send-multiple"

-----------------------------------------------------------------------------
(* Addresses, the address codec and the shard coordinator *)

AddrS0 == "erd1-alice"
AddrS1 == "erd1-bob"
AddrBad == "not-bech32"
\* fmt.Sprintf("%d", core.MetachainShardId)
MetachainIDStr == "4294967295"

\* pubKeyConverter.Decode: raw bytes of a well-formed address, an error otherwise
Decode(address) ==
    CASE address = AddrS0 -> [err |-> Nil, bytes |-> <<7, 4>>]
      [] address = AddrS1 -> [err |-> Nil, bytes |-> <<2, 9>>]
      [] OTHER -> [err |-> ErrDecode, bytes |-> <<>>]

\* proc.ComputeShardId: the low-order bits of the last byte
ComputeShardId(bytes) ==
    IF bytes = <<>>
      THEN [err |-> ErrBadAddress, shard |-> 0]
      ELSE [err |-> Nil, shard |-> bytes[Len(bytes)] % NumberOfShards]

HexDigits == {"0", "1", "2", "3", "4", "5", "6", "7", "8", "9",
              "a", "b", "c", "d", "e", "f"}

\* hex.DecodeString on a string given as its sequence of characters
HexDecodeErr(s) ==
    IF Len(s) % 2 = 0 /\ \A i \in 1..Len(s) : s[i] \in HexDigits
      THEN Nil ELSE ErrHex

-----------------------------------------------------------------------------
(* The observer inventory *)

Obs(a, s) == [Address |-> a, ShardId |-> s]
ObsA == Obs("A", 0)
ObsB == Obs("B", 0)
ObsX == Obs("X", 1)
ObsY == Obs("Y", 1)
ObsM == Obs("M", MetachainShardId)

Inventories ==
    { [byShard |-> (0 :> <<ObsA, ObsB>> @@ 1 :> <<ObsX, ObsY>>),
       all |-> <<ObsA, ObsX, ObsB, ObsY>>],
      [byShard |-> (0 :> <<ObsA>> @@ 1 :> <<ObsX>> @@ MetachainShardId :> <<ObsM>>),
       all |-> <<ObsM, ObsX, ObsA>>],
      [byShard |-> (0 :> <<ObsA, ObsB>> @@ 1 :> <<>>),
       all |-> <<ObsA, ObsB>>],
      [byShard |-> (1 :> <<ObsX, ObsY>>),
       all |-> <<ObsY, ObsX>>],
      [byShard |-> (0 :> <<ObsA>> @@ MetachainShardId :> <<ObsM>>),
       all |-> <<ObsA, ObsM>>],
      [byShard |-> (MetachainShardId :> <<ObsM>>),
       all |-> <<ObsM>>],
      [byShard |-> <<>>,
       all |-> <<>>] }

\* proc.GetObservers
GetObservers(shardID) ==
    IF shardID \in DOMAIN observers
      THEN [err |-> Nil, list |-> observers[shardID]]
      ELSE [err |-> ErrMissingObserver, list |-> <<>>]

\* proc.GetAllObservers
GetAllObservers == allObservers

\* a call of proc.GetObservers(shardID), as the log of lookups keeps it
GetObserversLookup(shardID) == [kind |-> "GetObservers", shard |-> shardID]

\* a call of proc.GetAllObservers()
GetAllObserversLookup == [kind |-> "GetAllObservers"]

-----------------------------------------------------------------------------
(* Replies of the observers *)

\* &data.ResponseTransaction{}: what the reply struct holds when nothing was decoded
NoBody == [TxHash |-> ""]
Reply(code, err, body) == [code |-> code, err |-> err, body |-> body]

\* replies to POST /transaction/send
SendReplies ==
    { Reply(StatusOK, Nil, [TxHash |-> h]) : h \in {"h_a", "h_b"} }
    \cup { Reply(c, e, NoBody) :
             c \in {StatusNotFound, StatusRequestTimeout, StatusBadRequest,
                    StatusInternalServerError},
             e \in {Nil, ErrBoom} }
    \cup { Reply(StatusOK, ErrUnmarshal, NoBody), Reply(0, ErrTransport, NoBody) }

Call(observer, path, reply) == [obs |-> observer, path |-> path, resp |-> reply]

-----------------------------------------------------------------------------
(* Transactions *)

Tx(snd, rcv, sig, index) ==
    [Sender |-> snd, Receiver |-> rcv, Signature |-> sig, Index |-> index]

SigGood == <<"a", "b">>
SigOdd == <<"a">>
SigNotHex == <<"z", "z">>

TxInputs ==
    { Tx(s, r, g, 0) : s \in {AddrS0, AddrS1, AddrBad},
                       r \in {AddrS0, AddrS1, AddrBad},
                       g \in {<<>>, SigGood, SigOdd, SigNotHex} }

\* &errors.ErrInvalidTxFields{Message: ..., Reason: ...}
InvalidTxFields(message, reason) ==
    [type |-> "ErrInvalidTxFields", message |-> message.type, reason |-> reason.type]

\* a slip: the signature is looked at before the addresses
checkTransactionFields_SignatureFirst(tx) ==
    IF HexDecodeErr(tx.Signature) # Nil
      THEN InvalidTxFields(ErrInvalidSignatureHex, HexDecodeErr(tx.Signature))
    ELSE IF Decode(tx.Sender).err # Nil
      THEN InvalidTxFields(ErrInvalidSenderAddress, Decode(tx.Sender).err)
    ELSE IF Decode(tx.Receiver).err # Nil
      THEN InvalidTxFields(ErrInvalidReceiverAddress, Decode(tx.Receiver).err)
    ELSE Nil

checkTransactionFields(tx) ==
    IF Decode(tx.Sender).err # Nil
      THEN InvalidTxFields(ErrInvalidSenderAddress, Decode(tx.Sender).err)
    ELSE IF Decode(tx.Receiver).err # Nil
      THEN InvalidTxFields(ErrInvalidReceiverAddress, Decode(tx.Receiver).err)
    ELSE IF HexDecodeErr(tx.Signature) # Nil
      THEN InvalidTxFields(ErrInvalidSignatureHex, HexDecodeErr(tx.Signature))
    ELSE Nil

-----------------------------------------------------------------------------
(* Initial state and the common steps *)

NoHit == [found |-> FALSE]
NoResult == [kind |-> "none"]

\* the request tasks the server runs at the same time
Tasks == 1..MaxTasks

\* the locals of a request task that runs no processor method
IdleTask ==
    [pc |-> "idle", address |-> "", cands |-> <<>>, idx |-> 1,
     inflight |-> {}, calls |-> <<>>, result |-> NoResult]

Init ==
    /\ tasks = [t \in Tasks |-> IdleTask]
    /\ \E inv \in Inventories :
         /\ observers = inv.byShard
         /\ allObservers = inv.all
    /\ pc = "idle"
    /\ op = "none"
    /\ req = <<>>
    /\ cands = <<>>
    /\ idx = 1
    /\ calls = <<>>
    /\ result = NoResult
    /\ hit = NoHit
    /\ txs = <<>>
    /\ groups = <<>>
    /\ pending = {}
    /\ curShard = 0
    /\ totalTxsSent = 0
    /\ txsHashes = <<>>
    /\ lookups = <<>>
    /\ written = <<>>

\* the method returns `res' to its caller
Finish(res) ==
    /\ pc' = "done"
    /\ result' = res

\* a slip: the loop does not leave the observer it has just called
NextObserver_Again(i) == i

\* `for _, observer := range observers': from one observer to the next of the list
NextObserver(i) == i + 1

\* the caller has taken the result; the processor keeps nothing of the request
Return ==
    /\ pc = "done"
    /\ pc' = "idle"
    /\ op' = "none"
    /\ req' = <<>>
    /\ cands' = <<>>
    /\ idx' = 1
    /\ calls' = <<>>
    /\ result' = NoResult
    /\ hit' = NoHit
    /\ txs' = <<>>
    /\ groups' = <<>>
    /\ pending' = {}
    /\ curShard' = 0
    /\ totalTxsSent' = 0
    /\ txsHashes' = <<>>
    /\ lookups' = <<>>
    /\ written' = <<>>
    /\ UNCHANGED <<observers, allObservers, tasks>>

-----------------------------------------------------------------------------
(* SendTransaction *)

SendResult(code, hash, err) ==
    [kind |-> "send", code |-> code, hash |-> hash, err |-> err]

\* the reply that ends the traversal with success
IsSuccess(respCode, err) == respCode = StatusOK /\ err = Nil

\* a slip: only 404 is taken for an observer that was down
IsSkipSignal_Only404(respCode) == respCode = StatusNotFound

\* the replies of an observer that was down or did not answer in time
IsSkipSignal(respCode) ==
    respCode = StatusNotFound \/ respCode = StatusRequestTimeout

SendTransactionSuccess(reply) == SendResult(reply.code, reply.body.TxHash, Nil)

\* a slip: every fatal reply is reported as 500
SendTransactionFatal_As500(reply) ==
    SendResult(StatusInternalServerError, "", reply.err)

SendTransactionFatal(reply) == SendResult(reply.code, "", reply.err)

\* a slip: exhaustion reported as the routing error
SendTransactionExhausted_AsMissing ==
    SendResult(StatusInternalServerError, "", ErrMissingObserver)

SendTransactionExhausted == SendResult(StatusInternalServerError, "", ErrSendingRequest)

\* SendTransaction up to its loop: the early return, or the observers to range over
SendTransactionPrologue(tx) ==
    LET chk == checkTransactionFields(tx)
        dec == Decode(tx.Sender)
        sh  == ComputeShardId(dec.bytes)
        obs == GetObservers(sh.shard)
        looked == <<GetObserversLookup(sh.shard)>>
    IN  IF chk # Nil
          THEN [ret |-> TRUE, res |-> SendResult(StatusBadRequest, "", chk),
                looked |-> <<>>]
        ELSE IF dec.err # Nil
          THEN [ret |-> TRUE, res |-> SendResult(StatusBadRequest, "", dec.err),
                looked |-> <<>>]
        ELSE IF sh.err # Nil
          THEN [ret |-> TRUE, res |-> SendResult(StatusInternalServerError, "", sh.err),
                looked |-> <<>>]
        ELSE IF obs.err # Nil
          THEN [ret |-> TRUE, res |-> SendResult(StatusInternalServerError, "", obs.err),
                looked |-> looked]
        ELSE [ret |-> FALSE, list |-> obs.list, looked |-> looked]

StartSendTransaction ==
    /\ pc = "idle"
    /\ \E tx \in TxInputs :
         LET pro == SendTransactionPrologue(tx)
         IN  /\ op' = "SendTransaction"
             /\ req' = [tx |-> tx]
             /\ idx' = 1
             /\ lookups' = pro.looked
             /\ IF pro.ret
                  THEN /\ Finish(pro.res)
                       /\ cands' = <<>>
                  ELSE /\ cands' = pro.list
                       /\ IF pro.list = <<>>
                            THEN Finish(SendTransactionExhausted)
                            ELSE /\ pc' = "SendTransaction"
                                 /\ UNCHANGED result
    /\ UNCHANGED <<observers, allObservers, tasks, written, calls, hit>>
    /\ UNCHANGED multiVars

\* one pass of the loop: the POST to cands[idx] and what the code does with the reply
SendTransactionCall ==
    /\ pc = "SendTransaction"
    /\ \E reply \in SendReplies :
         /\ calls' = Append(calls, Call(cands[idx], TransactionSendPath, reply))
         /\ IF IsSuccess(reply.code, reply.err)
              THEN /\ Finish(SendTransactionSuccess(reply))
                   /\ UNCHANGED idx
            ELSE IF IsSkipSignal(reply.code)
              THEN IF idx < Len(cands)
                     THEN /\ idx' = NextObserver(idx)
                          /\ UNCHANGED <<pc, result>>
                     ELSE /\ Finish(SendTransactionExhausted)
                          /\ UNCHANGED idx
            ELSE /\ Finish(SendTransactionFatal(reply))
                 /\ UNCHANGED idx
    /\ UNCHANGED <<observers, allObservers, tasks, written, lookups, op, req, cands, hit>>
    /\ UNCHANGED multiVars

NextSend == StartSendTransaction \/ SendTransactionCall \/ Return

SpecSend == Init /\ [][NextSend]_vars

-----------------------------------------------------------------------------
(* GetTransactionStatus *)

getShardByAddress(address) ==
    IF address # MetachainIDStr
      THEN LET dec == Decode(address)
               sh  == ComputeShardId(dec.bytes)
           IN  IF dec.err # Nil THEN [shard |-> 0, err |-> dec.err]
               ELSE IF sh.err # Nil THEN [shard |-> 0, err |-> sh.err]
               ELSE [shard |-> sh.shard, err |-> Nil]
      ELSE [shard |-> MetachainShardId, err |-> Nil]

\* &data.GetTransactionResponse{}
NoTxBody == [Transaction |-> [Sender |-> "", Receiver |-> "", Status |-> ""]]

TxBodies ==
    { [Transaction |-> [Sender |-> s, Receiver |-> r, Status |-> st]] :
        s \in {AddrS0, AddrS1, MetachainIDStr},
        r \in {AddrS0, AddrS1, MetachainIDStr},
        st \in {"pending", "success"} }

\* An observer holds a transaction only if it is of the sender's or of the
\* receiver's shard: the source shard dispatches it, the destination executes it.
Holds(observer, body) ==
    \/ getShardByAddress(body.Transaction.Sender).shard = observer.ShardId
    \/ getShardByAddress(body.Transaction.Receiver).shard = observer.ShardId

\* replies of `observer' to GET /transaction/{hash}
GetTxReplies(observer) ==
    { Reply(StatusOK, Nil, b) : b \in { x \in TxBodies : Holds(observer, x) } }
    \cup { Reply(StatusNotFound, ErrBoom, NoTxBody),
           Reply(StatusInternalServerError, Nil, NoTxBody),
           Reply(StatusOK, ErrUnmarshal, NoTxBody) }

StatusResult(status, err) == [kind |-> "status", status |-> status, err |-> err]

\* a slip: the forwarder's error is not looked at
GotTx_CodeOnly(reply) == reply.code = StatusOK

\* getTxFromObserver's ok, and the same test in getTxStatusFromDestShard's loop
GotTx(reply) == reply.err = Nil /\ reply.code = StatusOK

TxStatusNotFound == StatusResult(UnknownStatusTx, ErrTransactionNotFound)

\* the status of the first hit, returned as it is
TxStatusOfHit(status) == StatusResult(status, Nil)

\* a slip: an unreachable destination shard reported as a transaction not found
TxStatusFallback_NotFound(status) == TxStatusNotFound

\* the status of the first hit, returned when no destination-shard observer answered
TxStatusFallback(status) == StatusResult(status, Nil)

\* a slip: the source shard's status is kept although the destination answered
TxStatusOfDest_KeepsSource(reply, hitStatus) == StatusResult(hitStatus, Nil)

\* the status a destination-shard observer reported, returned in place of the hit's
TxStatusOfDest(reply, hitStatus) == StatusResult(reply.body.Transaction.Status, Nil)

\* a slip: the observer's own shard is never taken for the destination
ObserverIsInDestShard_Never(rcvShardID, observer) == FALSE

ObserverIsInDestShard(rcvShardID, observer) == rcvShardID = observer.ShardId

\* whether the hit is returned without asking the destination shard
IsAuthoritative(sender, tx, observer) ==
    LET rcvShardID == getShardByAddress(tx.Receiver).shard
    IN  IF sender # ""
          THEN rcvShardID = getShardByAddress(sender).shard
          ELSE \/ getShardByAddress(tx.Sender).shard = rcvShardID
               \/ ObserverIsInDestShard(rcvShardID, observer)

\* a slip: the sender's shard is computed, and every observer is asked all the same
GetTransactionStatusPrologue_AllObservers(sender) ==
    IF sender # "" /\ getShardByAddress(sender).err # Nil
      THEN [ret |-> TRUE, res |-> StatusResult(UnknownStatusTx, ErrInvalidSenderAddress)]
    ELSE IF sender # "" /\ GetObservers(getShardByAddress(sender).shard).err # Nil
      THEN [ret |-> TRUE,
            res |-> StatusResult(UnknownStatusTx,
                                 GetObservers(getShardByAddress(sender).shard).err)]
    ELSE [ret |-> FALSE, list |-> GetAllObservers]

\* GetTransactionStatus up to its loop: the early return, or the candidates
GetTransactionStatusPrologue(sender) ==
    IF sender # ""
      THEN LET sh  == getShardByAddress(sender)
               obs == GetObservers(sh.shard)
           IN  IF sh.err # Nil
                 THEN [ret |-> TRUE, res |-> StatusResult(UnknownStatusTx, ErrInvalidSenderAddress)]
               ELSE IF obs.err # Nil
                 THEN [ret |-> TRUE, res |-> StatusResult(UnknownStatusTx, obs.err)]
               ELSE [ret |-> FALSE, list |-> obs.list]
      ELSE [ret |-> FALSE, list |-> GetAllObservers]

StatusSenders == {"", AddrS0, AddrS1, AddrBad, MetachainIDStr}

StartGetTransactionStatus ==
    /\ pc = "idle"
    /\ \E sender \in StatusSenders :
         LET pro == GetTransactionStatusPrologue(sender)
         IN  /\ op' = "GetTransactionStatus"
             /\ req' = [txHash |-> "h", sender |-> sender]
             /\ idx' = 1
             /\ IF pro.ret
                  THEN /\ Finish(pro.res)
                       /\ cands' = <<>>
                  ELSE /\ cands' = pro.list
                       /\ IF pro.list = <<>>
                            THEN Finish(TxStatusNotFound)
                            ELSE /\ pc' = "GetTransactionStatus"
                                 /\ UNCHANGED result
    /\ UNCHANGED <<observers, allObservers, tasks, written, lookups, calls, hit>>
    /\ UNCHANGED multiVars

\* one pass of the loop over the candidates: the GET and what follows the reply, up
\* to the return or to the first GET of getTxStatusFromDestShard
GetTransactionStatusCall ==
    /\ pc = "GetTransactionStatus"
    /\ \E reply \in GetTxReplies(cands[idx]) :
         LET tx  == reply.body.Transaction
             dst == GetObservers(getShardByAddress(tx.Receiver).shard)
         IN  /\ calls' = Append(calls, Call(cands[idx], TransactionPath, reply))
             /\ IF ~GotTx(reply)
                  THEN /\ UNCHANGED <<cands, hit>>
                       /\ IF idx < Len(cands)
                            THEN /\ idx' = NextObserver(idx)
                                 /\ UNCHANGED <<pc, result>>
                            ELSE /\ Finish(TxStatusNotFound)
                                 /\ UNCHANGED idx
                ELSE IF IsAuthoritative(req.sender, tx, cands[idx])
                  THEN /\ Finish(TxStatusOfHit(tx.Status))
                       /\ UNCHANGED <<cands, idx, hit>>
                ELSE IF dst.err # Nil \/ dst.list = <<>>
                  THEN /\ Finish(TxStatusFallback(tx.Status))
                       /\ UNCHANGED <<cands, idx, hit>>
                ELSE /\ pc' = "getTxStatusFromDestShard"
                     /\ hit' = [found |-> TRUE, status |-> tx.Status]
                     /\ cands' = dst.list
                     /\ idx' = 1
                     /\ UNCHANGED result
    /\ UNCHANGED <<observers, allObservers, tasks, written, lookups, op, req>>
    /\ UNCHANGED multiVars

\* one pass of getTxStatusFromDestShard's loop, and the caller's return after it
GetTxStatusFromDestShardCall ==
    /\ pc = "getTxStatusFromDestShard"
    /\ \E reply \in GetTxReplies(cands[idx]) :
         /\ calls' = Append(calls, Call(cands[idx], TransactionPath, reply))
         /\ IF GotTx(reply)
              THEN /\ Finish(TxStatusOfDest(reply, hit.status))
                   /\ UNCHANGED idx
            ELSE IF idx < Len(cands)
              THEN /\ idx' = NextObserver(idx)
                   /\ UNCHANGED <<pc, result>>
            ELSE /\ Finish(TxStatusFallback(hit.status))
                 /\ UNCHANGED idx
    /\ UNCHANGED <<observers, allObservers, tasks, written, lookups, op, req, cands, hit>>
    /\ UNCHANGED multiVars

NextStatus ==
    StartGetTransactionStatus \/ GetTransactionStatusCall
      \/ GetTxStatusFromDestShardCall \/ Return

SpecStatus == Init /\ [][NextStatus]_vars

-----------------------------------------------------------------------------
(* SendMultipleTransactions *)

\* the records a client's array is made of; Index is not part of the JSON
MultiTxInputs ==
    { Tx(AddrS0, AddrS1, SigGood, 0), Tx(AddrS1, AddrS0, SigGood, 0),
      Tx(AddrBad, AddrS0, SigGood, 0), Tx(AddrS0, AddrS0, SigNotHex, 0) }

TxArrays == UNION { [1..n -> MultiTxInputs] : n \in 0..MaxTxs }

\* &data.ResponseMultipleTransactions{}
NoMultiBody == [NumOfTxs |-> 0, TxsHashes |-> <<>>]

\* the hash an observer reports at a key of its reply
HashOf(observer, key) == <<observer.Address, key>>

\* replies of `observer' to the POST of a group of n transactions: the keys of
\* TxsHashes are positions in the posted group, n being one past its end and
\* -1 one before its start
MultiReplies(observer, n) ==
    UNION { { Reply(StatusOK, Nil,
                    [NumOfTxs |-> c, TxsHashes |-> [k \in K |-> HashOf(observer, k)]]) :
                c \in {Cardinality(K), n} } :
            K \in (SUBSET (0..(n - 1))) \cup {0..n, {-1}} }
    \cup { Reply(StatusInternalServerError, ErrBoom, NoMultiBody),
           Reply(StatusRequestTimeout, ErrTransport, NoMultiBody),
           Reply(StatusOK, ErrUnmarshal, NoMultiBody) }

MultiCall(observer, shard, body, reply) ==
    [obs |-> observer, path |-> MultipleTransactionsPath, resp |-> reply,
     shard |-> shard, body |-> body]

MultiResult(num, hashes, err) ==
    [kind |-> "multi", NumOfTxs |-> num, TxsHashes |-> hashes, err |-> err]

\* a Go runtime panic: index out of range
Panic == [kind |-> "panic", err |-> Error("index out of range")]

\* a slip: every entry of the array is sent, valid or not
TxsToSend_All(arr) == [i \in 1..Len(arr) |-> i]

\* txsToSend: the valid entries of the array, as positions in it (the pointers)
TxsToSend(arr) ==
    LET F[i \in 0..Len(arr)] ==
          IF i = 0 THEN <<>>
          ELSE IF checkTransactionFields(arr[i]) = Nil
                 THEN Append(F[i - 1], i)
                 ELSE F[i - 1]
    IN  F[Len(arr)]

\* a slip: the groups are keyed by the receiver's shard
groupTxsByShard_ByReceiver(arr, toSend) ==
    LET G[i \in 0..Len(toSend)] ==
          IF i = 0 THEN [txs |-> arr, map |-> <<>>]
          ELSE LET prev == G[i - 1]
                   ptr  == toSend[i]
                   dec  == Decode(prev.txs[ptr].Receiver)
                   sh   == ComputeShardId(dec.bytes)
                   old  == IF sh.shard \in DOMAIN prev.map
                             THEN prev.map[sh.shard] ELSE <<>>
               IN  IF dec.err # Nil \/ sh.err # Nil
                     THEN prev
                     ELSE [txs |-> [prev.txs EXCEPT ![ptr].Index = i - 1],
                           map |-> (sh.shard :> Append(old, ptr)) @@ prev.map]
    IN  G[Len(toSend)]

\* groupTxsByShard: ranges over txsToSend, writes Index through the pointer and
\* appends the pointer to its sender shard's group
groupTxsByShard(arr, toSend) ==
    LET G[i \in 0..Len(toSend)] ==
          IF i = 0 THEN [txs |-> arr, map |-> <<>>]
          ELSE LET prev == G[i - 1]
                   ptr  == toSend[i]
                   dec  == Decode(prev.txs[ptr].Sender)
                   sh   == ComputeShardId(dec.bytes)
                   old  == IF sh.shard \in DOMAIN prev.map
                             THEN prev.map[sh.shard] ELSE <<>>
               IN  IF dec.err # Nil \/ sh.err # Nil
                     THEN prev
                     ELSE [txs |-> [prev.txs EXCEPT ![ptr].Index = i - 1],
                           map |-> (sh.shard :> Append(old, ptr)) @@ prev.map]
    IN  G[Len(toSend)]

\* the orders in which `range txsByShardID' may visit the groups
RangeOrders(keys) ==
    { o \in [1..Cardinality(keys) -> keys] :
        \A i, j \in 1..Cardinality(keys) : i # j => o[i] # o[j] }

\* the head of the loop over the groups, from the groups still to visit to the
\* next POST: a group's GetObservers may fail, or give no observer to post to
RECURSIVE NextGroup(_)
NextGroup(order) ==
    IF order = <<>> THEN [kind |-> "return", looked |-> <<>>]
    ELSE LET obs == GetObservers(Head(order))
             looked == <<GetObserversLookup(Head(order))>>
             nxt == NextGroup(Tail(order))
         IN  IF obs.err # Nil THEN [kind |-> "missing", looked |-> looked]
             ELSE IF obs.list = <<>>
               THEN [nxt EXCEPT !.looked = looked \o nxt.looked]
             ELSE [kind |-> "post", shard |-> Head(order), list |-> obs.list,
                   rest |-> Tail(order), looked |-> looked]

\* a slip: what the earlier groups gave is returned beside the error
MissingObserver_Partial(total, hashes) ==
    MultiResult(total, hashes, ErrMissingObserver)

\* return data.ResponseMultipleTransactions{}, ErrMissingObserver
MissingObserver(total, hashes) == MultiResult(0, <<>>, ErrMissingObserver)

\* the control flow of SendMultipleTransactions from the head of the loop over the groups
ToNextGroup(order, total, hashes) ==
    LET nxt == NextGroup(order)
    IN  /\ lookups' = lookups \o nxt.looked
        /\ CASE nxt.kind = "return" ->
                  /\ Finish(MultiResult(total, hashes, Nil))
                  /\ UNCHANGED <<cands, idx, curShard>>
                  /\ pending' = <<>>
             [] nxt.kind = "missing" ->
                  /\ Finish(MissingObserver(total, hashes))
                  /\ UNCHANGED <<cands, idx, curShard>>
                  /\ pending' = <<>>
             [] nxt.kind = "post" ->
                  /\ pc' = "SendMultipleTransactions"
                  /\ cands' = nxt.list
                  /\ idx' = 1
                  /\ curShard' = nxt.shard
                  /\ pending' = nxt.rest
                  /\ UNCHANGED result

StartSendMultipleTransactions ==
    /\ pc = "idle"
    /\ \E arr \in TxArrays :
         LET toSend == TxsToSend(arr)
             grp == groupTxsByShard(arr, toSend)
         IN  /\ op' = "SendMultipleTransactions"
             /\ req' = [txs |-> arr]
             /\ totalTxsSent' = 0
             /\ txsHashes' = <<>>
             /\ IF Len(toSend) = 0
                  THEN /\ Finish(MultiResult(0, <<>>, ErrNoValidTransactionToSend))
                       /\ txs' = arr
                       /\ groups' = <<>>
                       /\ UNCHANGED <<cands, idx, curShard, pending, lookups>>
                  ELSE /\ txs' = grp.txs
                       /\ groups' = grp.map
                       /\ \E order \in RangeOrders(DOMAIN grp.map) :
                            ToNextGroup(order, 0, <<>>)
    /\ UNCHANGED <<observers, allObservers, tasks, written, calls, hit>>

\* the transactions of the group being posted, as the POST carries them
GroupOfTxs == [i \in 1..Len(groups[curShard]) |-> txs[groups[curShard][i]]]

\* txsHashes after `for key, hash := range txResponse.TxsHashes'
MergeHashes(hashes, groupOfTxs, replied) ==
    LET at == { groupOfTxs[k + 1].Index : k \in DOMAIN replied }
    IN  [i \in at \cup DOMAIN hashes |->
           IF i \in at
             THEN replied[CHOOSE k \in DOMAIN replied : groupOfTxs[k + 1].Index = i]
             ELSE hashes[i]]

\* a slip: the count of the last accepted group replaces the total
AddTxsSent_Overwrite(total, numOfTxs) == numOfTxs

\* totalTxsSent += txResponse.NumOfTxs
AddTxsSent(total, numOfTxs) == total + numOfTxs

\* a slip: a failed POST ends the group
SendMultipleNext_Abandon(ok, i, n) == "nextGroup"

\* a slip: no break after the successful POST
SendMultipleNext_NoBreak(ok, i, n) ==
    IF i < n THEN "nextObserver" ELSE "nextGroup"

\* where the loop over a group's observers goes after a reply
SendMultipleNext(ok, i, n) ==
    IF ok THEN "nextGroup"
    ELSE IF i < n THEN "nextObserver" ELSE "nextGroup"

\* one pass of the loop over a group's observers: the POST, the merge of a
\* successful reply, and the way to the next POST or to the return
SendMultipleTransactionsCall ==
    /\ pc = "SendMultipleTransactions"
    /\ \E reply \in MultiReplies(cands[idx], Len(groups[curShard])) :
         LET ok == IsSuccess(reply.code, reply.err)
             replied == reply.body.TxsHashes
             total == IF ok THEN AddTxsSent(totalTxsSent, reply.body.NumOfTxs)
                           ELSE totalTxsSent
             outOfRange == \E k \in DOMAIN replied : k \notin 0..(Len(GroupOfTxs) - 1)
             hashes == IF ok THEN MergeHashes(txsHashes, GroupOfTxs, replied)
                             ELSE txsHashes
         IN  /\ calls' = Append(calls, MultiCall(cands[idx], curShard, GroupOfTxs, reply))
             /\ IF ok /\ outOfRange
                  THEN /\ Finish(Panic)
                       /\ UNCHANGED <<cands, idx, curShard, pending, totalTxsSent,
                                      txsHashes, lookups>>
                  ELSE /\ totalTxsSent' = total
                       /\ txsHashes' = hashes
                       /\ IF SendMultipleNext(ok, idx, Len(cands)) = "nextObserver"
                            THEN /\ idx' = NextObserver(idx)
                                 /\ UNCHANGED <<pc, result, cands, curShard, pending,
                                                lookups>>
                            ELSE ToNextGroup(pending, total, hashes)
    /\ UNCHANGED <<observers, allObservers, tasks, written, op, req, hit, txs, groups>>

NextMulti ==
    StartSendMultipleTransactions \/ SendMultipleTransactionsCall \/ Return

SpecMulti == Init /\ [][NextMulti]_vars

-----------------------------------------------------------------------------
(* AccountProcessor: GetAccount and GetValueForKey *)

AddressPath == "/address/"

AccountAddresses == {AddrS0, AddrS1, AddrBad}

\* data.Account, as far as the proxy looks at it
AccountData(balance) == [Balance |-> balance]

\* &data.ResponseAccount{}
NoAccountBody == [AccountData |-> AccountData("")]

\* replies of an observer to GET /address/{addr}: a status outside 2xx comes
\* with an error, a 200 with an error when its body could not be decoded
AccountReplies ==
    { Reply(StatusOK, Nil, [AccountData |-> AccountData(b)]) : b \in {"7", "9"} }
    \cup { Reply(c, ErrBoom, NoAccountBody) :
             c \in {StatusNotFound, StatusRequestTimeout, StatusBadRequest,
                    StatusInternalServerError} }
    \cup { Reply(StatusOK, ErrUnmarshal, NoAccountBody),
           Reply(0, ErrTransport, NoAccountBody) }

\* a *data.Account: nil, or a pointer to the reply's AccountData
NilAccount == [isNil |-> TRUE, data |-> AccountData("")]
AccountPtr(account) == [isNil |-> FALSE, data |-> account]

AccountResult(account, err) == [kind |-> "account", account |-> account, err |-> err]

\* getObserversForAddress
getObserversForAddress(address) ==
    LET dec == Decode(address)
        sh  == ComputeShardId(dec.bytes)
        obs == GetObservers(sh.shard)
    IN  IF dec.err # Nil THEN [err |-> dec.err, list |-> <<>>]
        ELSE IF sh.err # Nil THEN [err |-> sh.err, list |-> <<>>]
        ELSE IF obs.err # Nil THEN [err |-> obs.err, list |-> <<>>]
        ELSE [err |-> Nil, list |-> obs.list]

\* a slip: the test of the forwarder's error is inverted
AccountAnswered_Inverted(reply) == reply.err # Nil

\* the test that ends the loops of GetAccount and GetValueForKey
AccountAnswered(reply) == reply.err = Nil

\* a slip: the account of a fresh reply struct is returned
GetAccountSuccess_Empty(reply) == AccountResult(AccountPtr(AccountData("")), Nil)

GetAccountSuccess(reply) == AccountResult(AccountPtr(reply.body.AccountData), Nil)

GetAccountExhausted == AccountResult(NilAccount, ErrSendingRequest)

StartGetAccount ==
    /\ pc = "idle"
    /\ \E address \in AccountAddresses :
         LET obs == getObserversForAddress(address)
         IN  /\ op' = "GetAccount"
             /\ req' = [address |-> address]
             /\ idx' = 1
             /\ cands' = obs.list
             /\ IF obs.err # Nil
                  THEN Finish(AccountResult(NilAccount, obs.err))
                ELSE IF obs.list = <<>>
                  THEN Finish(GetAccountExhausted)
                ELSE /\ pc' = "GetAccount"
                     /\ UNCHANGED result
    /\ UNCHANGED <<observers, allObservers, tasks, written, lookups, calls, hit>>
    /\ UNCHANGED multiVars

\* one pass of GetAccount's loop
GetAccountCall ==
    /\ pc = "GetAccount"
    /\ \E reply \in AccountReplies :
         /\ calls' = Append(calls, Call(cands[idx], <<AddressPath, req.address>>, reply))
         /\ IF AccountAnswered(reply)
              THEN /\ Finish(GetAccountSuccess(reply))
                   /\ UNCHANGED idx
            ELSE IF idx < Len(cands)
              THEN /\ idx' = NextObserver(idx)
                   /\ UNCHANGED <<pc, result>>
            ELSE /\ Finish(GetAccountExhausted)
                 /\ UNCHANGED idx
    /\ UNCHANGED <<observers, allObservers, tasks, written, lookups, op, req, cands, hit>>
    /\ UNCHANGED multiVars

\* the map a reply to GET /address/{addr}/key/{key} is decoded into
ValueBody(hasValue, value, hasError, error) ==
    [hasValue |-> hasValue, value |-> value, hasError |-> hasError, error |-> error]

\* make(map[string]interface{})
NoValueBody == ValueBody(FALSE, "", FALSE, "")

ValueReplies ==
    { Reply(StatusOK, Nil, b) :
        b \in { ValueBody(TRUE, "v", FALSE, ""), ValueBody(FALSE, "", TRUE, "e"),
                ValueBody(TRUE, "v", TRUE, "e"), NoValueBody } }
    \cup { Reply(c, ErrBoom, NoValueBody) :
             c \in {StatusNotFound, StatusInternalServerError} }
    \cup { Reply(StatusOK, ErrUnmarshal, NoValueBody),
           Reply(0, ErrTransport, NoValueBody) }

ValueResult(value, err) == [kind |-> "value", value |-> value, err |-> err]

\* fmt.Errorf("%v", err) and fmt.Errorf("unexpected response")
ErrOfResponse(text) == [type |-> "errorString", message |-> text, reason |-> ""]

getValueOrError(response) ==
    IF response.hasValue THEN ValueResult(response.value, Nil)
    ELSE IF response.hasError THEN ValueResult("", ErrOfResponse(response.error))
    ELSE ValueResult("", ErrOfResponse("unexpected response"))

ValueKeys == {"k"}

StartGetValueForKey ==
    /\ pc = "idle"
    /\ \E address \in AccountAddresses, key \in ValueKeys :
         LET obs == getObserversForAddress(address)
         IN  /\ op' = "GetValueForKey"
             /\ req' = [address |-> address, key |-> key]
             /\ idx' = 1
             /\ cands' = obs.list
             /\ IF obs.err # Nil
                  THEN Finish(ValueResult("", obs.err))
                ELSE IF obs.list = <<>>
                  THEN Finish(ValueResult("", ErrSendingRequest))
                ELSE /\ pc' = "GetValueForKey"
                     /\ UNCHANGED result
    /\ UNCHANGED <<observers, allObservers, tasks, written, lookups, calls, hit>>
    /\ UNCHANGED multiVars

\* one pass of GetValueForKey's loop
GetValueForKeyCall ==
    /\ pc = "GetValueForKey"
    /\ \E reply \in ValueReplies :
         /\ calls' = Append(calls,
                            Call(cands[idx], <<AddressPath, req.address, "/key/", req.key>>,
                                 reply))
         /\ IF AccountAnswered(reply)
              THEN /\ Finish(getValueOrError(reply.body))
                   /\ UNCHANGED idx
            ELSE IF idx < Len(cands)
              THEN /\ idx' = NextObserver(idx)
                   /\ UNCHANGED <<pc, result>>
            ELSE /\ Finish(ValueResult("", ErrSendingRequest))
                 /\ UNCHANGED idx
    /\ UNCHANGED <<observers, allObservers, tasks, written, lookups, op, req, cands, hit>>
    /\ UNCHANGED multiVars

NextAccount ==
    StartGetAccount \/ GetAccountCall
      \/ StartGetValueForKey \/ GetValueForKeyCall \/ Return

SpecAccount == Init /\ [][NextAccount]_vars

-----------------------------------------------------------------------------
(* TransactionCostRequest *)

TransactionCostPath == "/transaction/cost"

\* &data.ResponseTxCost{}
NoCostBody == [TxCost |-> 0]

\* replies to POST /transaction/cost
CostReplies ==
    { Reply(StatusOK, Nil, [TxCost |-> c]) : c \in {0, 50000} }
    \cup { Reply(c, e, NoCostBody) :
             c \in {StatusNotFound, StatusRequestTimeout, StatusBadRequest,
                    StatusInternalServerError},
             e \in {Nil, ErrBoom} }
    \cup { Reply(StatusOK, ErrUnmarshal, NoCostBody), Reply(0, ErrTransport, NoCostBody) }

CostResult(cost, err) == [kind |-> "cost", cost |-> cost, err |-> err]

\* a slip: the metachain's observers are asked like the others
IsMetachainObserver_Never(observer) == FALSE

\* observer.ShardId == core.MetachainShardId
IsMetachainObserver(observer) == observer.ShardId = MetachainShardId

\* the position, from i on, of the first observer the loop does not pass
\* over, one past the end of the list if there is none
NextToAsk(list, i) ==
    LET rest == { j \in i..Len(list) : ~IsMetachainObserver(list[j]) }
    IN  IF rest = {} THEN Len(list) + 1
        ELSE CHOOSE j \in rest : \A l \in rest : j <= l

\* strconv.Itoa(int(txCostResponse.TxCost))
TransactionCostSuccess(reply) == CostResult(ToString(reply.body.TxCost), Nil)

TransactionCostFatal(reply) == CostResult("", reply.err)

\* a slip: exhaustion reported without an error
TransactionCostExhausted_NoError == CostResult("", Nil)

TransactionCostExhausted == CostResult("", ErrSendingRequest)

StartTransactionCostRequest ==
    /\ pc = "idle"
    /\ \E tx \in TxInputs :
         LET chk == checkTransactionFields(tx)
             first == NextToAsk(GetAllObservers, 1)
         IN  /\ op' = "TransactionCostRequest"
             /\ req' = [tx |-> tx]
             /\ IF chk # Nil
                  THEN /\ Finish(CostResult("", chk))
                       /\ cands' = <<>>
                       /\ idx' = 1
                       /\ lookups' = <<>>
                  ELSE /\ cands' = GetAllObservers
                       /\ idx' = first
                       /\ lookups' = <<GetAllObserversLookup>>
                       /\ IF first > Len(GetAllObservers)
                            THEN Finish(TransactionCostExhausted)
                            ELSE /\ pc' = "TransactionCostRequest"
                                 /\ UNCHANGED result
    /\ UNCHANGED <<observers, allObservers, tasks, written, calls, hit>>
    /\ UNCHANGED multiVars

\* one POST of the loop, and the loop's way to the next POST or to the return
TransactionCostRequestCall ==
    /\ pc = "TransactionCostRequest"
    /\ \E reply \in CostReplies :
         LET next == NextToAsk(cands, NextObserver(idx))
         IN  /\ calls' = Append(calls, Call(cands[idx], TransactionCostPath, reply))
             /\ IF IsSuccess(reply.code, reply.err)
                  THEN /\ Finish(TransactionCostSuccess(reply))
                       /\ UNCHANGED idx
                ELSE IF IsSkipSignal(reply.code)
                  THEN /\ idx' = next
                       /\ IF next <= Len(cands)
                            THEN UNCHANGED <<pc, result>>
                            ELSE Finish(TransactionCostExhausted)
                ELSE /\ Finish(TransactionCostFatal(reply))
                     /\ UNCHANGED idx
    /\ UNCHANGED <<observers, allObservers, tasks, written, lookups, op, req, cands, hit>>
    /\ UNCHANGED multiVars

NextCost == StartTransactionCostRequest \/ TransactionCostRequestCall \/ Return

SpecCost == Init /\ [][NextCost]_vars

-----------------------------------------------------------------------------
(* GetTransaction and GetTransactionByHashAndSenderAddress *)

\* replies of `observer' to GET /transaction/{hash}, as these two methods meet them
ReadTxReplies(observer) ==
    GetTxReplies(observer)
      \cup { Reply(StatusBadRequest, ErrBoom, NoTxBody), Reply(0, ErrTransport, NoTxBody) }

\* a *transaction.ApiTransactionResult: nil, or a pointer to the reply's Transaction
NilTx == [isNil |-> TRUE, data |-> NoTxBody.Transaction]
TxPtr(transaction) == [isNil |-> FALSE, data |-> transaction]

GetTxResult(tx, err) == [kind |-> "tx", tx |-> tx, err |-> err]

\* a slip: a reply with an error is taken when its status is 200
ReadAnswered_CodeOnly(reply) == reply.code = StatusOK

\* the two tests an observer's reply has to pass: respCode != http.StatusOK
\* goes on, err != nil goes on
ReadAnswered(reply) == ~(reply.code # StatusOK) /\ ~(reply.err # Nil)

\* `return nil, err': err is the variable the last call assigned, nil before any call
GetTransactionExhausted(lastErr) == GetTxResult(NilTx, lastErr)

StartGetTransaction ==
    /\ pc = "idle"
    /\ op' = "GetTransaction"
    /\ req' = [txHash |-> "h"]
    /\ idx' = 1
    /\ cands' = GetAllObservers
    /\ IF GetAllObservers = <<>>
         THEN Finish(GetTransactionExhausted(Nil))
         ELSE /\ pc' = "GetTransaction"
              /\ UNCHANGED result
    /\ UNCHANGED <<observers, allObservers, tasks, written, lookups, calls, hit>>
    /\ UNCHANGED multiVars

\* one pass of GetTransaction's loop
GetTransactionCall ==
    /\ pc = "GetTransaction"
    /\ \E reply \in ReadTxReplies(cands[idx]) :
         /\ calls' = Append(calls, Call(cands[idx], TransactionPath, reply))
         /\ IF ReadAnswered(reply)
              THEN /\ Finish(GetTxResult(TxPtr(reply.body.Transaction), Nil))
                   /\ UNCHANGED idx
            ELSE IF idx < Len(cands)
              THEN /\ idx' = NextObserver(idx)
                   /\ UNCHANGED <<pc, result>>
            ELSE /\ Finish(GetTransactionExhausted(reply.err))
                 /\ UNCHANGED idx
    /\ UNCHANGED <<observers, allObservers, tasks, written, lookups, op, req, cands, hit>>
    /\ UNCHANGED multiVars

GetTxBySenderResult(tx, code, err) ==
    [kind |-> "txBySender", tx |-> tx, code |-> code, err |-> err]

\* a slip: exhaustion reported as an upstream failure
TxBySenderNotFound_As500 ==
    GetTxBySenderResult(NilTx, StatusInternalServerError, ErrSendingRequest)

TxBySenderNotFound == GetTxBySenderResult(NilTx, StatusNotFound, ErrTransactionNotFound)

\* GetTransactionByHashAndSenderAddress up to its loop
GetTxBySenderPrologue(sndAddr) ==
    LET sh  == getShardByAddress(sndAddr)
        obs == GetObservers(sh.shard)
    IN  IF sh.err # Nil
          THEN [ret |-> TRUE,
                res |-> GetTxBySenderResult(NilTx, StatusBadRequest, ErrInvalidSenderAddress)]
        ELSE IF obs.err # Nil
          THEN [ret |-> TRUE,
                res |-> GetTxBySenderResult(NilTx, StatusInternalServerError, obs.err)]
        ELSE [ret |-> FALSE, list |-> obs.list]

SenderAddresses == {AddrS0, AddrS1, AddrBad, MetachainIDStr}

StartGetTransactionByHashAndSenderAddress ==
    /\ pc = "idle"
    /\ \E sndAddr \in SenderAddresses :
         LET pro == GetTxBySenderPrologue(sndAddr)
         IN  /\ op' = "GetTransactionByHashAndSenderAddress"
             /\ req' = [txHash |-> "h", sndAddr |-> sndAddr]
             /\ idx' = 1
             /\ IF pro.ret
                  THEN /\ Finish(pro.res)
                       /\ cands' = <<>>
                  ELSE /\ cands' = pro.list
                       /\ IF pro.list = <<>>
                            THEN Finish(TxBySenderNotFound)
                            ELSE /\ pc' = "GetTransactionByHashAndSenderAddress"
                                 /\ UNCHANGED result
    /\ UNCHANGED <<observers, allObservers, tasks, written, lookups, calls, hit>>
    /\ UNCHANGED multiVars

\* one pass of GetTransactionByHashAndSenderAddress's loop
GetTransactionByHashAndSenderAddressCall ==
    /\ pc = "GetTransactionByHashAndSenderAddress"
    /\ \E reply \in ReadTxReplies(cands[idx]) :
         /\ calls' = Append(calls, Call(cands[idx], TransactionPath, reply))
         /\ IF ReadAnswered(reply)
              THEN /\ Finish(GetTxBySenderResult(TxPtr(reply.body.Transaction),
                                                 StatusOK, Nil))
                   /\ UNCHANGED idx
            ELSE IF idx < Len(cands)
              THEN /\ idx' = NextObserver(idx)
                   /\ UNCHANGED <<pc, result>>
            ELSE /\ Finish(TxBySenderNotFound)
                 /\ UNCHANGED idx
    /\ UNCHANGED <<observers, allObservers, tasks, written, lookups, op, req, cands, hit>>
    /\ UNCHANGED multiVars

NextRead ==
    \/ StartGetTransaction \/ GetTransactionCall
    \/ StartGetTransactionByHashAndSenderAddress
    \/ GetTransactionByHashAndSenderAddressCall
    \/ Return

SpecRead == Init /\ [][NextRead]_vars

-----------------------------------------------------------------------------
(* Concurrent requests: GetAccount run by several request tasks at once, the  *)
(* forwarder's call and its return being separate steps.  A task's locals are *)
(* those of its own invocation; the processor's fields (proc,                 *)
(* pubKeyConverter, connector) are set by the constructor and read only.      *)

requestVars == <<pc, op, req, cands, idx, calls, result, hit, lookups, written>>

\* a call of the forwarder that has not returned yet
InFlight(observer, position) == [obs |-> observer, pos |-> position]

\* the replies the concurrent tasks get: those of AccountReplies with a
\* status of 200 or 500, that is both ways out of GetAccount's loop
TaskReplies ==
    { r \in AccountReplies : r.code \in {StatusOK, StatusInternalServerError} }

\* a slip: the call is started and the loop goes on without its return
AfterIssue_Async(i, n) ==
    IF i < n THEN [pc |-> "loop", idx |-> i + 1] ELSE [pc |-> "await", idx |-> i]

\* CallGetRestEndPoint is an ordinary call: the task waits in it for the reply
AfterIssue(i, n) == [pc |-> "await", idx |-> i]

\* a request task enters GetAccount, up to the head of the loop
TaskStart(t) ==
    /\ tasks[t].pc = "idle"
    /\ \E address \in AccountAddresses :
         LET obs == getObserversForAddress(address)
             T == [tasks[t] EXCEPT !.address = address, !.cands = obs.list, !.idx = 1]
         IN  tasks' = [tasks EXCEPT ![t] =
                 IF obs.err # Nil
                   THEN [T EXCEPT !.pc = "done",
                                  !.result = AccountResult(NilAccount, obs.err)]
                 ELSE IF obs.list = <<>>
                   THEN [T EXCEPT !.pc = "done", !.result = GetAccountExhausted]
                 ELSE [T EXCEPT !.pc = "loop"]]
    /\ UNCHANGED <<observers, allObservers>>
    /\ UNCHANGED requestVars
    /\ UNCHANGED multiVars

\* the task calls the forwarder for the observer its loop stands at
TaskIssue(t) ==
    /\ tasks[t].pc = "loop"
    /\ LET T == tasks[t]
           after == AfterIssue(T.idx, Len(T.cands))
       IN  tasks' = [tasks EXCEPT ![t] =
               [T EXCEPT !.inflight = T.inflight \cup {InFlight(T.cands[T.idx], T.idx)},
                         !.pc = after.pc,
                         !.idx = after.idx]]
    /\ UNCHANGED <<observers, allObservers>>
    /\ UNCHANGED requestVars
    /\ UNCHANGED multiVars

\* the forwarder returns to the task, which goes on as GetAccount's loop says
TaskReply(t) ==
    /\ tasks[t].pc = "await"
    /\ \E c \in tasks[t].inflight, reply \in TaskReplies :
         LET T == [tasks[t] EXCEPT
                     !.inflight = tasks[t].inflight \ {c},
                     !.calls = Append(tasks[t].calls,
                                      Call(c.obs, <<AddressPath, tasks[t].address>>, reply))]
         IN  tasks' = [tasks EXCEPT ![t] =
                 IF AccountAnswered(reply)
                   THEN [T EXCEPT !.pc = "done", !.result = GetAccountSuccess(reply)]
                 ELSE IF T.idx < Len(T.cands)
                   THEN [T EXCEPT !.pc = "loop", !.idx = NextObserver(T.idx)]
                 ELSE [T EXCEPT !.pc = "done", !.result = GetAccountExhausted]]
    /\ UNCHANGED <<observers, allObservers>>
    /\ UNCHANGED requestVars
    /\ UNCHANGED multiVars

\* GetAccount returns to the task's caller; nothing of the request is kept
TaskReturn(t) ==
    /\ tasks[t].pc = "done"
    /\ tasks' = [tasks EXCEPT ![t] = IdleTask]
    /\ UNCHANGED <<observers, allObservers>>
    /\ UNCHANGED requestVars
    /\ UNCHANGED multiVars

NextConcurrent ==
    \E t \in Tasks : TaskStart(t) \/ TaskIssue(t) \/ TaskReply(t) \/ TaskReturn(t)

SpecConcurrent == Init /\ [][NextConcurrent]_vars

-----------------------------------------------------------------------------
(* The API layer: URL parameters *)

UrlParameterOnFinalBlock == "onFinalBlock"
UrlParameterCheckSignature == "checkSignature"

UrlParameters == {UrlParameterOnFinalBlock, UrlParameterCheckSignature}

\* the values a client gives a parameter: `name=' gives the empty one
UrlValues == {"true", "false", "", "foobar", "1"}

\* the parsed query strings: the parameters present, each with its value
Queries(names) == UNION { [present -> UrlValues] : present \in SUBSET names }

\* c.Request.URL.Query().Get(name): empty for a parameter that is absent
QueryGet(query, name) == IF name \in DOMAIN query THEN query[name] ELSE ""

ErrParseBool == Error("ErrParseBool")

BoolResult(value, err) == [kind |-> "bool", value |-> value, err |-> err]

\* a slip: a parameter given without a value is an error
parseBoolUrlParam_EmptyIsError(query, name) ==
    LET param == QueryGet(query, name)
    IN  IF name \notin DOMAIN query THEN BoolResult(FALSE, Nil)
        ELSE IF param = "true" THEN BoolResult(TRUE, Nil)
        ELSE IF param = "false" THEN BoolResult(FALSE, Nil)
        ELSE BoolResult(FALSE, ErrParseBool)

\* parseBoolUrlParam(c, name): exactly "true" and "false" are accepted
parseBoolUrlParam(query, name) ==
    LET param == QueryGet(query, name)
    IN  IF param = "" THEN BoolResult(FALSE, Nil)
        ELSE IF param = "true" THEN BoolResult(TRUE, Nil)
        ELSE IF param = "false" THEN BoolResult(FALSE, Nil)
        ELSE BoolResult(FALSE, ErrParseBool)

\* common.TransactionSimulationOptions{}
NoSimulationOptions == [CheckSignature |-> FALSE]

SimulationResult(options, err) ==
    [kind |-> "simulationOptions", options |-> options, err |-> err]

\* parseTransactionSimulationOptions(c): checkSignature is true unless given
parseTransactionSimulationOptions(query) ==
    LET parsed == parseBoolUrlParam(query, UrlParameterCheckSignature)
    IN  IF QueryGet(query, UrlParameterCheckSignature) = ""
          THEN SimulationResult([CheckSignature |-> TRUE], Nil)
        ELSE IF parsed.err # Nil
          THEN SimulationResult(NoSimulationOptions, parsed.err)
        ELSE SimulationResult([CheckSignature |-> parsed.value], Nil)

\* common.AccountQueryOptions{}
NoAccountOptions == [OnFinalBlock |-> FALSE]

OptionsResult(options, err) == [options |-> options, err |-> err]

\* parseAccountQueryOptions(c)
parseAccountQueryOptions(query) ==
    LET parsed == parseBoolUrlParam(query, UrlParameterOnFinalBlock)
    IN  IF parsed.err # Nil
          THEN OptionsResult(NoAccountOptions, parsed.err)
          ELSE OptionsResult([OnFinalBlock |-> parsed.value], Nil)

\* a call of parseBoolUrlParam on some query string
ParseBoolUrlParam ==
    /\ pc = "idle"
    /\ \E query \in Queries(UrlParameters), name \in UrlParameters :
         /\ op' = "parseBoolUrlParam"
         /\ req' = [query |-> query, name |-> name]
         /\ Finish(parseBoolUrlParam(query, name))
    /\ UNCHANGED <<observers, allObservers, tasks, written, lookups, cands, idx, calls, hit>>
    /\ UNCHANGED multiVars

\* a call of parseTransactionSimulationOptions on some query string
ParseTransactionSimulationOptions ==
    /\ pc = "idle"
    /\ \E query \in Queries(UrlParameters) :
         /\ op' = "parseTransactionSimulationOptions"
         /\ req' = [query |-> query]
         /\ Finish(parseTransactionSimulationOptions(query))
    /\ UNCHANGED <<observers, allObservers, tasks, written, lookups, cands, idx, calls, hit>>
    /\ UNCHANGED multiVars

NextParse == ParseBoolUrlParam \/ ParseTransactionSimulationOptions \/ Return

SpecParse == Init /\ [][NextParse]_vars

-----------------------------------------------------------------------------
(* The API layer: the handlers of the accounts group *)

ReturnCodeSuccess == "successful"
ReturnCodeInternalError == "internal_issue"
ReturnCodeRequestError == "request_error"

ErrBadUrlParams == Error("ErrBadUrlParams")
ErrGetAccount == Error("ErrGetAccount")
ErrEmptyAddress == Error("ErrEmptyAddress")
ErrEmptyKey == Error("ErrEmptyKey")
ErrEmptyTokenIdentifier == Error("ErrEmptyTokenIdentifier")
ErrCannotParseNonce == Error("ErrCannotParseNonce")
ErrGetKeyValuePairs == Error("ErrGetKeyValuePairs")
ErrGetValueForKey == Error("ErrGetValueForKey")
ErrComputeShardForAddress == Error("ErrComputeShardForAddress")
ErrGetESDTTokenData == Error("ErrGetESDTTokenData")
ErrGetRolesForAccount == Error("ErrGetRolesForAccount")
ErrGetESDTsWithRole == Error("ErrGetESDTsWithRole")
ErrGetNFTTokenIDsRegisteredByAddress == Error("ErrGetNFTTokenIDsRegisteredByAddress")
\* the error a method of the facade returns
ErrFacade == Error("facade")
ErrParseNonce == Error("ErrParseNonce")

\* the routes of the group and the path parameters of each
RouteParams ==
    [getAccount |-> {"address"}, getBalance |-> {"address"},
     getUsername |-> {"address"}, getNonce |-> {"address"},
     getShard |-> {"address"}, getTransactions |-> {"address"},
     getKeyValuePairs |-> {"address"},
     getValueForKey |-> {"address", "key"},
     getESDTTokens |-> {"address"},
     getESDTTokenData |-> {"address", "tokenIdentifier"},
     getESDTsWithRole |-> {"address", "role"},
     getESDTsRoles |-> {"address"},
     getRegisteredNFTs |-> {"address"},
     getESDTNftTokenData |-> {"address", "tokenIdentifier", "nonce"}]

\* the values a handler finds in a path parameter
ParamValues(name) ==
    CASE name = "address" -> {"", AddrS0}
      [] name = "nonce" -> {"", "7", "x"}
      [] OTHER -> {"", "k"}

\* the gin contexts a route's handler is called with
Contexts(handler) ==
    LET names == RouteParams[handler]
    IN  { [params |-> p, query |-> q] :
            p \in { f \in [names -> {"", AddrS0, "7", "x", "k"}] :
                      \A n \in names : f[n] \in ParamValues(n) },
            q \in Queries({UrlParameterOnFinalBlock}) }

\* c.Param(name)
Param(c, name) == IF name \in DOMAIN c.params THEN c.params[name] ELSE ""

\* shared.FetchNonceFromRequest(c)
FetchNonceFromRequest(c) ==
    IF Param(c, "nonce") = "7" THEN [nonce |-> 7, err |-> Nil]
                               ELSE [nonce |-> 0, err |-> ErrParseNonce]

\* what a method of the facade returns: a value, or an error and no value
FacadeReturns == { [value |-> "value", err |-> Nil], [value |-> "nil", err |-> ErrFacade] }

\* a call of a method of the facade, with what it returned
FacadeCall(method, args, ret) == [facade |-> method, args |-> args, ret |-> ret]

\* shared.RespondWith(c, status, dataField, error, code): the response envelope
RespondWith(status, dataField, error, code) ==
    [status |-> status, body |-> [data |-> dataField, error |-> error, code |-> code]]

\* shared.RespondWithValidationError(c, err, innerErr)
RespondWithValidationError(err, innerErr) ==
    RespondWith(StatusBadRequest, "nil", <<err.type, innerErr.type>>, ReturnCodeRequestError)

\* shared.RespondWithInternalError(c, err, innerErr)
RespondWithInternalError(err, innerErr) ==
    RespondWith(StatusInternalServerError, "nil", <<err.type, innerErr.type>>,
                ReturnCodeInternalError)

\* c.JSON(status, obj): the object itself is the body
JSON(status, obj) == [status |-> status, body |-> [raw |-> obj]]

\* what a handler did: the calls of the facade and the responses written, in order
Handling(facadeCalls, responses) == [facade |-> facadeCalls, written |-> responses]

\* respondWithAccount: the four handlers that answer with a part of the account
respondWithAccount(c, ret, transform) ==
    LET address == Param(c, "address")
        parsed  == parseAccountQueryOptions(c.query)
        call    == FacadeCall("GetAccount", <<address, parsed.options>>, ret)
    IN  IF parsed.err # Nil
          THEN Handling(<<>>, <<RespondWithValidationError(ErrBadUrlParams, parsed.err)>>)
        ELSE IF ret.err # Nil
          THEN Handling(<<call>>, <<RespondWithInternalError(ErrGetAccount, ret.err)>>)
        ELSE Handling(<<call>>,
                      <<RespondWith(StatusOK, <<transform, ret.value>>, "", ReturnCodeSuccess)>>)

getAccount(c, ret) == respondWithAccount(c, ret, "account")

getBalance(c, ret) == respondWithAccount(c, ret, "balance")

getUsername(c, ret) == respondWithAccount(c, ret, "username")

getNonce(c, ret) == respondWithAccount(c, ret, "nonce")

getTransactions(c, ret) ==
    LET addr == Param(c, "address")
        call == FacadeCall("GetTransactions", <<addr>>, ret)
    IN  IF ret.err # Nil
          THEN Handling(<<call>>,
                        <<RespondWith(StatusInternalServerError, "nil", <<ret.err.type>>,
                                      ReturnCodeInternalError)>>)
          ELSE Handling(<<call>>,
                        <<RespondWith(StatusOK, <<"transactions", ret.value>>, "",
                                      ReturnCodeSuccess)>>)

getKeyValuePairs(c, ret) ==
    LET addr   == Param(c, "address")
        parsed == parseAccountQueryOptions(c.query)
        call   == FacadeCall("GetKeyValuePairs", <<addr, parsed.options>>, ret)
    IN  IF addr = ""
          THEN Handling(<<>>, <<RespondWithValidationError(ErrGetKeyValuePairs, ErrEmptyAddress)>>)
        ELSE IF parsed.err # Nil
          THEN Handling(<<>>, <<RespondWithValidationError(ErrGetKeyValuePairs, parsed.err)>>)
        ELSE IF ret.err # Nil
          THEN Handling(<<call>>, <<RespondWithInternalError(ErrGetKeyValuePairs, ret.err)>>)
        ELSE Handling(<<call>>, <<JSON(StatusOK, ret.value)>>)

getValueForKey(c, ret) ==
    LET addr   == Param(c, "address")
        parsed == parseAccountQueryOptions(c.query)
        key    == Param(c, "key")
        call   == FacadeCall("GetValueForKey", <<addr, key, parsed.options>>, ret)
    IN  IF addr = ""
          THEN Handling(<<>>, <<RespondWithValidationError(ErrGetValueForKey, ErrEmptyAddress)>>)
        ELSE IF parsed.err # Nil
          THEN Handling(<<>>, <<RespondWithValidationError(ErrGetValueForKey, parsed.err)>>)
        ELSE IF key = ""
          THEN Handling(<<>>, <<RespondWithValidationError(ErrGetValueForKey, ErrEmptyKey)>>)
        ELSE IF ret.err # Nil
          THEN Handling(<<call>>, <<RespondWithInternalError(ErrGetValueForKey, ret.err)>>)
        ELSE Handling(<<call>>,
                      <<RespondWith(StatusOK, <<"value", ret.value>>, "", ReturnCodeSuccess)>>)

getShard(c, ret) ==
    LET addr == Param(c, "address")
        call == FacadeCall("GetShardIDForAddress", <<addr>>, ret)
    IN  IF addr = ""
          THEN Handling(<<>>,
                        <<RespondWith(StatusBadRequest, "nil",
                                      <<ErrComputeShardForAddress.type, ErrEmptyAddress.type>>,
                                      ReturnCodeRequestError)>>)
        ELSE IF ret.err # Nil
          THEN Handling(<<call>>, <<RespondWithInternalError(ErrComputeShardForAddress, ret.err)>>)
        ELSE Handling(<<call>>,
                      <<RespondWith(StatusOK, <<"shardID", ret.value>>, "", ReturnCodeSuccess)>>)

\* what getESDTTokenData writes after the facade's error: the error response,
\* and, no return following it, the facade's value with status 200
ESDTTokenDataFailed(ret) ==
    <<RespondWithInternalError(ErrEmptyTokenIdentifier, ret.err), JSON(StatusOK, ret.value)>>

getESDTTokenData(c, ret) ==
    LET addr   == Param(c, "address")
        parsed == parseAccountQueryOptions(c.query)
        tokenIdentifier == Param(c, "tokenIdentifier")
        call   == FacadeCall("GetESDTTokenData", <<addr, tokenIdentifier, parsed.options>>, ret)
    IN  IF addr = ""
          THEN Handling(<<>>, <<RespondWithValidationError(ErrGetESDTTokenData, ErrEmptyAddress)>>)
        ELSE IF parsed.err # Nil
          THEN Handling(<<>>, <<RespondWithValidationError(ErrGetESDTTokenData, parsed.err)>>)
        ELSE IF tokenIdentifier = ""
          THEN Handling(<<>>, <<RespondWithValidationError(ErrEmptyTokenIdentifier, parsed.err)>>)
        ELSE IF ret.err # Nil
          THEN Handling(<<call>>, ESDTTokenDataFailed(ret))
        ELSE Handling(<<call>>, <<JSON(StatusOK, ret.value)>>)

getESDTsRoles(c, ret) ==
    LET addr   == Param(c, "address")
        parsed == parseAccountQueryOptions(c.query)
        call   == FacadeCall("GetESDTsRoles", <<addr, parsed.options>>, ret)
    IN  IF addr = ""
          THEN Handling(<<>>, <<RespondWithValidationError(ErrGetRolesForAccount, ErrEmptyAddress)>>)
        ELSE IF parsed.err # Nil
          THEN Handling(<<>>, <<RespondWithValidationError(ErrGetRolesForAccount, parsed.err)>>)
        ELSE IF ret.err # Nil
          THEN Handling(<<call>>, <<RespondWithInternalError(ErrEmptyTokenIdentifier, ret.err)>>)
        ELSE Handling(<<call>>, <<JSON(StatusOK, ret.value)>>)

getESDTsWithRole(c, ret) ==
    LET addr   == Param(c, "address")
        parsed == parseAccountQueryOptions(c.query)
        role   == Param(c, "role")
        call   == FacadeCall("GetESDTsWithRole", <<addr, role, parsed.options>>, ret)
    IN  IF addr = ""
          THEN Handling(<<>>, <<RespondWithValidationError(ErrGetESDTsWithRole, ErrEmptyAddress)>>)
        ELSE IF parsed.err # Nil
          THEN Handling(<<>>, <<RespondWithValidationError(ErrGetESDTsWithRole, parsed.err)>>)
        ELSE IF role = ""
          THEN Handling(<<>>, <<RespondWithValidationError(ErrGetESDTsWithRole, parsed.err)>>)
        ELSE IF ret.err # Nil
          THEN Handling(<<call>>, <<RespondWithInternalError(ErrGetESDTsWithRole, ret.err)>>)
        ELSE Handling(<<call>>, <<JSON(StatusOK, ret.value)>>)

getRegisteredNFTs(c, ret) ==
    LET addr   == Param(c, "address")
        parsed == parseAccountQueryOptions(c.query)
        call   == FacadeCall("GetNFTTokenIDsRegisteredByAddress", <<addr, parsed.options>>, ret)
    IN  IF addr = ""
          THEN Handling(<<>>, <<RespondWithValidationError(ErrGetNFTTokenIDsRegisteredByAddress,
                                                           ErrEmptyAddress)>>)
        ELSE IF parsed.err # Nil
          THEN Handling(<<>>, <<RespondWithValidationError(ErrGetNFTTokenIDsRegisteredByAddress,
                                                           parsed.err)>>)
        ELSE IF ret.err # Nil
          THEN Handling(<<call>>, <<RespondWithInternalError(ErrGetNFTTokenIDsRegisteredByAddress,
                                                             ret.err)>>)
        ELSE Handling(<<call>>, <<JSON(StatusOK, ret.value)>>)

getESDTNftTokenData(c, ret) ==
    LET addr   == Param(c, "address")
        parsed == parseAccountQueryOptions(c.query)
        tokenIdentifier == Param(c, "tokenIdentifier")
        fetched == FetchNonceFromRequest(c)
        call   == FacadeCall("GetESDTNftTokenData",
                             <<addr, tokenIdentifier, fetched.nonce, parsed.options>>, ret)
    IN  IF addr = ""
          THEN Handling(<<>>, <<RespondWithValidationError(ErrGetESDTTokenData, ErrEmptyAddress)>>)
        ELSE IF parsed.err # Nil
          THEN Handling(<<>>, <<RespondWithValidationError(ErrGetESDTTokenData, parsed.err)>>)
        ELSE IF tokenIdentifier = ""
          THEN Handling(<<>>, <<RespondWithValidationError(ErrGetESDTTokenData,
                                                           ErrEmptyTokenIdentifier)>>)
        ELSE IF fetched.err # Nil
          THEN Handling(<<>>, <<RespondWithValidationError(ErrGetESDTTokenData,
                                                           ErrCannotParseNonce)>>)
        ELSE IF ret.err # Nil
          THEN Handling(<<call>>, <<RespondWithInternalError(ErrGetESDTTokenData, ret.err)>>)
        ELSE Handling(<<call>>, <<JSON(StatusOK, ret.value)>>)

getESDTTokens(c, ret) ==
    LET addr   == Param(c, "address")
        parsed == parseAccountQueryOptions(c.query)
        call   == FacadeCall("GetAllESDTTokens", <<addr, parsed.options>>, ret)
    IN  IF addr = ""
          THEN Handling(<<>>, <<RespondWithValidationError(ErrGetESDTTokenData, ErrEmptyAddress)>>)
        ELSE IF parsed.err # Nil
          THEN Handling(<<>>, <<RespondWithValidationError(ErrGetESDTTokenData, parsed.err)>>)
        ELSE IF ret.err # Nil
          THEN Handling(<<call>>, <<RespondWithInternalError(ErrGetESDTTokenData, ret.err)>>)
        ELSE Handling(<<call>>, <<JSON(StatusOK, ret.value)>>)

\* the handler of each route, as NewAccountsGroup registers them
Handler(handler, c, ret) ==
    CASE handler = "getAccount" -> getAccount(c, ret)
      [] handler = "getBalance" -> getBalance(c, ret)
      [] handler = "getUsername" -> getUsername(c, ret)
      [] handler = "getNonce" -> getNonce(c, ret)
      [] handler = "getShard" -> getShard(c, ret)
      [] handler = "getTransactions" -> getTransactions(c, ret)
      [] handler = "getKeyValuePairs" -> getKeyValuePairs(c, ret)
      [] handler = "getValueForKey" -> getValueForKey(c, ret)
      [] handler = "getESDTTokens" -> getESDTTokens(c, ret)
      [] handler = "getESDTTokenData" -> getESDTTokenData(c, ret)
      [] handler = "getESDTsWithRole" -> getESDTsWithRole(c, ret)
      [] handler = "getESDTsRoles" -> getESDTsRoles(c, ret)
      [] handler = "getRegisteredNFTs" -> getRegisteredNFTs(c, ret)
      [] handler = "getESDTNftTokenData" -> getESDTNftTokenData(c, ret)

\* a request of the accounts group served by the handler of its route
Serve(handler) ==
    /\ pc = "idle"
    /\ \E c \in Contexts(handler), ret \in FacadeReturns :
         LET handled == Handler(handler, c, ret)
         IN  /\ op' = handler
             /\ req' = c
             /\ calls' = handled.facade
             /\ written' = handled.written
             /\ pc' = "done"
    /\ UNCHANGED <<observers, allObservers, tasks, lookups, cands, idx, result, hit>>
    /\ UNCHANGED multiVars

NextAccountsGroup ==
    \/ Serve("getAccount") \/ Serve("getBalance") \/ Serve("getUsername")
    \/ Serve("getNonce") \/ Serve("getShard") \/ Serve("getTransactions")
    \/ Serve("getKeyValuePairs") \/ Serve("getValueForKey")
    \/ Serve("getESDTTokens") \/ Serve("getESDTTokenData")
    \/ Serve("getESDTsWithRole") \/ Serve("getESDTsRoles")
    \/ Serve("getRegisteredNFTs") \/ Serve("getESDTNftTokenData")
    \/ Return

SpecAccountsGroup == Init /\ [][NextAccountsGroup]_vars

-----------------------------------------------------------------------------
(* The processors together *)

Next ==
    \/ StartSendTransaction \/ SendTransactionCall
    \/ StartGetTransactionStatus \/ GetTransactionStatusCall
    \/ GetTxStatusFromDestShardCall
    \/ StartSendMultipleTransactions \/ SendMultipleTransactionsCall
    \/ StartGetAccount \/ GetAccountCall
    \/ StartGetValueForKey \/ GetValueForKeyCall
    \/ StartTransactionCostRequest \/ TransactionCostRequestCall
    \/ StartGetTransaction \/ GetTransactionCall
    \/ StartGetTransactionByHashAndSenderAddress
    \/ GetTransactionByHashAndSenderAddressCall
    \/ Return

Spec == Init /\ [][Next]_vars

-----------------------------------------------------------------------------
(* Properties of SendTransaction *)

\* the request is a SendTransaction of a valid transaction whose shard is known
SendTraversal ==
    /\ op = "SendTransaction"
    /\ checkTransactionFields(req.tx) = Nil
    /\ GetObservers(getShardByAddress(req.tx.Sender).shard).err = Nil

\* the observers of the sender's shard, in inventory order
SenderShardObservers == GetObservers(getShardByAddress(req.tx.Sender).shard).list

SkipReply(reply) == reply.code \in {StatusNotFound, StatusRequestTimeout}
OkReply(reply) == reply.code = StatusOK /\ reply.err = Nil

\* the first n calls were each answered 404 or 408
AllSkipped(n) == \A i \in 1..n : SkipReply(calls[i].resp)

\* the i-th call of the request went to the i-th observer of `list'
CalledInOrder(list) ==
    /\ Len(calls) <= Len(list)
    /\ \A i \in 1..Len(calls) : calls[i].obs = list[i]

\* after skip replies only, with observers left, the next observer is about to be called
SkipGoesOn(list) ==
    (AllSkipped(Len(calls)) /\ Len(calls) < Len(list))
      => /\ pc = "SendTransaction"
         /\ cands = list
         /\ idx = Len(calls) + 1

\* C1: SendTransaction of a valid transaction: when observers 1..k-1 of the
\* sender's shard (in inventory order) each answer 404 or 408 and observer k
\* answers 200 without error, the method returns (200, observer k's txHash, nil)
\* and calls no observer after k.  Stated on the call log: the calls go to the
\* shard's observers in order, the traversal goes on after skip replies only,
\* and the first call answered (200, nil) is the last call and decides the result.
C1_SendFailover ==
    SendTraversal =>
      /\ CalledInOrder(SenderShardObservers)
      /\ SkipGoesOn(SenderShardObservers)
      /\ \A k \in 1..Len(calls) :
           (AllSkipped(k - 1) /\ OkReply(calls[k].resp))
             => /\ pc = "done"
                /\ result = SendResult(StatusOK, calls[k].resp.body.TxHash, Nil)
                /\ Len(calls) = k

C1_Witness ==
    /\ SendTraversal
    /\ pc = "done"
    /\ Len(calls) = 2
    /\ calls[1].resp.code = StatusRequestTimeout
    /\ calls[1].obs = ObsA
    /\ calls[2].obs = ObsB
    /\ OkReply(calls[2].resp)
    /\ result = SendResult(StatusOK, "h_b", Nil)

\* C2: SendTransaction's fatal outcome: when the first observer that does not
\* answer 404 or 408 answers anything other than (200, nil), the method returns
\* that observer's status code and error with an empty hash and calls no observer
\* after it; had the reply been 404, the next observer would be called (the
\* traversal stands at the next observer after every 404).
C2_SendFatal ==
    SendTraversal =>
      /\ \A k \in 1..Len(calls) :
           (AllSkipped(k - 1) /\ ~SkipReply(calls[k].resp) /\ ~OkReply(calls[k].resp))
             => /\ pc = "done"
                /\ result = SendResult(calls[k].resp.code, "", calls[k].resp.err)
                /\ Len(calls) = k
      /\ (/\ Len(calls) > 0
          /\ AllSkipped(Len(calls) - 1)
          /\ calls[Len(calls)].resp.code = StatusNotFound
          /\ Len(calls) < Len(SenderShardObservers))
           => /\ pc = "SendTransaction"
              /\ cands[idx] = SenderShardObservers[Len(calls) + 1]

C2_Witness ==
    /\ SendTraversal
    /\ pc = "done"
    /\ Len(calls) = 2
    /\ calls[1].resp.code = StatusNotFound
    /\ calls[2].resp = Reply(StatusBadRequest, ErrBoom, NoBody)
    /\ result = SendResult(StatusBadRequest, "", ErrBoom)

\* C3: SendTransaction's exhaustion: when every observer of the sender's shard
\* answers 404 or 408, or the shard's list is empty, the method returns
\* (500, "", ErrSendingRequest) after calling each observer exactly once.
C3_SendExhausted ==
    SendTraversal =>
      /\ CalledInOrder(SenderShardObservers)
      /\ SkipGoesOn(SenderShardObservers)
      /\ (AllSkipped(Len(calls)) /\ Len(calls) = Len(SenderShardObservers))
           => /\ pc = "done"
              /\ result = SendResult(StatusInternalServerError, "", ErrSendingRequest)

C3_Witness ==
    /\ SendTraversal
    /\ pc = "done"
    /\ Len(SenderShardObservers) = 2
    /\ Len(calls) = 2
    /\ AllSkipped(2)
    /\ result.err = ErrSendingRequest

\* the same outcome for a shard whose observer list is empty
C3_WitnessEmptyList ==
    /\ SendTraversal
    /\ pc = "done"
    /\ SenderShardObservers = <<>>
    /\ calls = <<>>
    /\ result.err = ErrSendingRequest

-----------------------------------------------------------------------------
(* Properties of GetTransactionStatus *)

ShardOf(address) == getShardByAddress(address).shard

\* the request is a GetTransactionStatus whose candidate list could be built
StatusTraversal ==
    /\ op = "GetTransactionStatus"
    /\ \/ req.sender = ""
       \/ /\ getShardByAddress(req.sender).err = Nil
          /\ GetObservers(ShardOf(req.sender)).err = Nil

\* the candidates of the first phase
StatusCandidates ==
    IF req.sender = "" THEN GetAllObservers
                       ELSE GetObservers(ShardOf(req.sender)).list

\* call k is the first one answered 200 without error
HitAt(k) ==
    /\ k \in 1..Len(calls)
    /\ OkReply(calls[k].resp)
    /\ \A i \in 1..(k - 1) : ~OkReply(calls[i].resp)

HitTx(k) == calls[k].resp.body.Transaction

\* the observers of the receiver's shard of the hit, none if the shard is unknown
DestObservers(k) == GetObservers(ShardOf(HitTx(k).Receiver)).list

\* the hit is a cross-shard transaction answered outside its receiver's shard
CrossFromSource(k) ==
    /\ HitAt(k)
    /\ ShardOf(HitTx(k).Sender) # ShardOf(HitTx(k).Receiver)
    /\ ShardOf(HitTx(k).Receiver) # calls[k].obs.ShardId

\* none of the calls from..to was answered 200 without error
NoneOk(from, to) == \A j \in from..to : ~OkReply(calls[j].resp)

\* the calls after the hit go to the receiver's shard, in inventory order
OverrideInOrder(k) ==
    /\ Len(calls) - k <= Len(DestObservers(k))
    /\ \A j \in (k + 1)..Len(calls) : calls[j].obs = DestObservers(k)[j - k]

C5_StatusOverride ==
    StatusTraversal =>
      \A k \in 1..Len(calls) :
        CrossFromSource(k) =>
          /\ OverrideInOrder(k)
          /\ (NoneOk(k + 1, Len(calls)) /\ Len(calls) - k < Len(DestObservers(k)))
               => /\ pc = "getTxStatusFromDestShard"
                  /\ cands[idx] = DestObservers(k)[Len(calls) - k + 1]
          /\ \A j \in (k + 1)..Len(calls) :
               (OkReply(calls[j].resp) /\ NoneOk(k + 1, j - 1))
                 => /\ pc = "done"
                    /\ result = StatusResult(calls[j].resp.body.Transaction.Status, Nil)
                    /\ Len(calls) = j

C5_Witness ==
    /\ StatusTraversal
    /\ pc = "done"
    /\ Len(calls) = 3
    /\ CrossFromSource(1)
    /\ calls[1].obs = ObsA
    /\ HitTx(1).Status = "pending"
    /\ calls[2].obs = ObsX
    /\ ~OkReply(calls[2].resp)
    /\ calls[3].obs = ObsY
    /\ OkReply(calls[3].resp)
    /\ calls[3].resp.body.Transaction.Status = "success"
    /\ result = StatusResult("success", Nil)

\* the override has run and no observer of the receiver's shard answered
OverrideFailed(k) ==
    /\ CrossFromSource(k)
    /\ Len(calls) - k = Len(DestObservers(k))
    /\ NoneOk(k + 1, Len(calls))

\* C6 as stated: the source-shard fallback: when the first hit is cross-shard
\* and answered outside the receiver's shard, and no observer of the receiver's
\* shard answers 200 without error (or that shard has none), the method returns
\* the first hit's status with a nil error and queries no remaining observer of
\* the initial candidate list.
C6_AsStated ==
    StatusTraversal =>
      \A k \in 1..Len(calls) :
        OverrideFailed(k) =>
          /\ pc = "done"
          /\ result = StatusResult(HitTx(k).Status, Nil)
          /\ \A j \in (k + 1)..Len(calls) :
               calls[j].obs \notin
                 { StatusCandidates[i] : i \in (k + 1)..Len(StatusCandidates) }

\* C6 as amended: in that case the method returns the first hit's status with a
\* nil error and does not go on with the first-phase traversal: every call after
\* the first hit is an override call, to the observers of the receiver's shard,
\* each once and in inventory order.
C6_StatusFallback ==
    StatusTraversal =>
      \A k \in 1..Len(calls) :
        OverrideFailed(k) =>
          /\ pc = "done"
          /\ result = StatusResult(HitTx(k).Status, Nil)
          /\ OverrideInOrder(k)

C6_Witness ==
    /\ StatusTraversal
    /\ pc = "done"
    /\ Len(calls) = 3
    /\ OverrideFailed(1)
    /\ Len(StatusCandidates) > 1
    /\ HitTx(1).Status = "pending"
    /\ result = StatusResult("pending", Nil)

\* C7: not found: when no candidate answers GET /transaction/{hash} with 200
\* and no error, the method returns ("unknown", ErrTransactionNotFound), every
\* candidate having been asked; and whenever the returned error is not nil the
\* returned status is "unknown".
C7_StatusNotFound ==
    /\ StatusTraversal =>
         /\ (NoneOk(1, Len(calls)) /\ Len(calls) = Len(StatusCandidates))
              => /\ pc = "done"
                 /\ result = StatusResult("unknown", ErrTransactionNotFound)
         /\ (NoneOk(1, Len(calls)) /\ Len(calls) < Len(StatusCandidates))
              => /\ pc = "GetTransactionStatus"
                 /\ cands[idx] = StatusCandidates[Len(calls) + 1]
    /\ (op = "GetTransactionStatus" /\ pc = "done" /\ result.err # Nil)
         => result.status = "unknown"

C7_Witness ==
    /\ StatusTraversal
    /\ pc = "done"
    /\ Len(StatusCandidates) = 4
    /\ Len(calls) = 4
    /\ NoneOk(1, 4)
    /\ result = StatusResult("unknown", ErrTransactionNotFound)

\* C8: the candidate set: with a sender, the first-phase lookups go to
\* GetObservers(shard of the sender), in its order; without one, to
\* GetAllObservers(), in its order; every other call is an override call to the
\* receiver's shard of the first hit; and a request whose candidate list cannot be
\* built calls no observer.
C8_StatusCandidates ==
    /\ (op = "GetTransactionStatus" /\ ~StatusTraversal) => calls = <<>>
    /\ StatusTraversal =>
         /\ NoneOk(1, Len(calls)) => CalledInOrder(StatusCandidates)
         /\ \A k \in 1..Len(calls) :
              HitAt(k) =>
                /\ k <= Len(StatusCandidates)
                /\ \A i \in 1..k : calls[i].obs = StatusCandidates[i]
                /\ OverrideInOrder(k)

\* a sender of shard 0: both observers of shard 0 asked, then one of shard 1
C8_Witness ==
    /\ StatusTraversal
    /\ req.sender = AddrS0
    /\ Len(allObservers) = 4
    /\ Len(calls) = 3
    /\ calls[1].obs = ObsA
    /\ calls[2].obs = ObsB
    /\ HitAt(2)
    /\ calls[3].obs = ObsX

-----------------------------------------------------------------------------
(* Properties of SendMultipleTransactions *)

\* SendMultipleTransactions has returned a response without error
MultiReturned ==
    /\ op = "SendMultipleTransactions"
    /\ pc = "done"
    /\ result.kind = "multi"
    /\ result.err = Nil

\* entry i (from 1) of the client's array passes checkTransactionFields
ValidAt(i) == checkTransactionFields(req.txs[i]) = Nil

\* the position (from 0) of the client's entry i inside its sender shard's group
PositionInGroup(i) ==
    Cardinality({ j \in 1..(i - 1) :
                    /\ ValidAt(j)
                    /\ ShardOf(req.txs[j].Sender) = ShardOf(req.txs[i].Sender) })

\* C9: SendMultipleTransactions preserves the client's indices: for every input
\* array, also one where invalid transactions precede valid ones, and every valid
\* transaction at position i of the client's array whose shard group an observer
\* accepted, result.TxsHashes[i] is the hash that observer returned at the key
\* equal to the transaction's position inside its group.
C9_IndexPreserved ==
    MultiReturned =>
      \A i \in 1..Len(req.txs) :
        ValidAt(i) =>
          \A c \in 1..Len(calls) :
            (/\ calls[c].shard = ShardOf(req.txs[i].Sender)
             /\ OkReply(calls[c].resp)
             /\ PositionInGroup(i) \in DOMAIN calls[c].resp.body.TxsHashes)
              => /\ (i - 1) \in DOMAIN result.TxsHashes
                 /\ result.TxsHashes[i - 1]
                      = calls[c].resp.body.TxsHashes[PositionInGroup(i)]

\* the number of calls before call j that posted the same shard's group
EarlierPosts(j) ==
    Cardinality({ i \in 1..(j - 1) : calls[i].shard = calls[j].shard })

\* C10: each shard group is submitted successfully at most once: the group's
\* POSTs go to the shard's observers in inventory order, and after the first
\* observer that answers 200 without error no further observer of that shard is
\* called for the group.
C10_GroupPostedOnce ==
    op = "SendMultipleTransactions" =>
      \A j \in 1..Len(calls) :
        /\ calls[j].shard \in DOMAIN observers
        /\ EarlierPosts(j) < Len(observers[calls[j].shard])
        /\ calls[j].obs = observers[calls[j].shard][EarlierPosts(j) + 1]
        /\ \A i \in 1..(j - 1) :
             calls[i].shard = calls[j].shard => ~OkReply(calls[i].resp)

\* shard 0's group accepted by its second observer, shard 1's by its first:
\* the second observer of shard 1 is not called
C10_Witness ==
    /\ MultiReturned
    /\ Len(calls) = 3
    /\ calls[1].obs = ObsA /\ ~OkReply(calls[1].resp)
    /\ calls[2].obs = ObsB /\ OkReply(calls[2].resp)
    /\ calls[3].obs = ObsX /\ OkReply(calls[3].resp)
    /\ Len(observers[1]) = 2

\* the shard groups of the request
ShardGroups == DOMAIN groups

\* the calls that posted shard s's group and were answered 200 without error
OkPosts(s) == { c \in 1..Len(calls) : calls[c].shard = s /\ OkReply(calls[c].resp) }

\* the first of them
FirstOkPost(s) == CHOOSE c \in OkPosts(s) : \A d \in OkPosts(s) : c <= d

\* what shard s's group adds to NumOfTxs
GroupNumOfTxs(s) ==
    IF OkPosts(s) = {} THEN 0 ELSE calls[FirstOkPost(s)].resp.body.NumOfTxs

RECURSIVE SumOfGroups(_)
SumOfGroups(S) ==
    IF S = {} THEN 0
    ELSE LET s == CHOOSE x \in S : TRUE
         IN  GroupNumOfTxs(s) + SumOfGroups(S \ {s})

\* the Index values of the transactions of shard s's group
GroupIndices(s) == { txs[groups[s][i]].Index : i \in 1..Len(groups[s]) }

\* C11: the aggregate count: when SendMultipleTransactions returns without
\* error, NumOfTxs is the sum over the shard groups of the NumOfTxs of the
\* group's first reply of 200 without error, a group no observer accepted
\* adding 0 and no hash; the sum and the hashes are a function of the groups'
\* replies alone, whatever the order in which the groups were ranged over.
C11_AggregateCount ==
    MultiReturned =>
      /\ result.NumOfTxs = SumOfGroups(ShardGroups)
      /\ \A s \in ShardGroups :
           IF OkPosts(s) = {}
             THEN GroupIndices(s) \cap DOMAIN result.TxsHashes = {}
             ELSE \A k \in DOMAIN calls[FirstOkPost(s)].resp.body.TxsHashes :
                    LET at == txs[groups[s][k + 1]].Index
                    IN  /\ at \in DOMAIN result.TxsHashes
                        /\ result.TxsHashes[at]
                             = calls[FirstOkPost(s)].resp.body.TxsHashes[k]

\* two groups accepted, shard 1's first: 1 + 2 transactions
C11_Witness ==
    /\ MultiReturned
    /\ Len(calls) = 2
    /\ calls[1].shard = 1 /\ OkReply(calls[1].resp)
    /\ calls[1].resp.body.NumOfTxs = 1
    /\ calls[2].shard = 0 /\ OkReply(calls[2].resp)
    /\ calls[2].resp.body.NumOfTxs = 2
    /\ result.NumOfTxs = 3

\* a group no observer accepted beside an accepted one
C11_WitnessFailedGroup ==
    /\ MultiReturned
    /\ Len(calls) = 3
    /\ calls[1].obs = ObsA /\ ~OkReply(calls[1].resp)
    /\ calls[2].obs = ObsB /\ ~OkReply(calls[2].resp)
    /\ calls[3].obs = ObsX /\ OkReply(calls[3].resp)
    /\ calls[3].resp.body.NumOfTxs = 1
    /\ result.NumOfTxs = 1
    /\ DOMAIN result.TxsHashes # {}

\* the reply carries a status outside 200..299
Non2xx(reply) == reply.code \notin 200..299

\* the observers of the shard whose group call j posted
ObserversOfPost(j) == observers[calls[j].shard]

\* C12 as stated: when an observer of a shard group answers the POST with a
\* non-2xx status, no further observer of that shard is called for the group
\* and the group contributes nothing to the result.
C12_AsStated ==
    op = "SendMultipleTransactions" =>
      \A j \in 1..Len(calls) :
        Non2xx(calls[j].resp) =>
          /\ \A i \in (j + 1)..Len(calls) : calls[i].shard # calls[j].shard
          /\ MultiReturned =>
               GroupIndices(calls[j].shard) \cap DOMAIN result.TxsHashes = {}

\* C12 as amended: a non-2xx answer does not end the group: the next observer
\* of the shard, when there is one, is the next one called, with the same
\* group; the group contributes nothing only when none of the shard's
\* observers answers 200 without error.
C12_GroupGoesOn ==
    op = "SendMultipleTransactions" =>
      /\ \A j \in 1..Len(calls) :
           (Non2xx(calls[j].resp) /\ EarlierPosts(j) + 1 < Len(ObserversOfPost(j)))
             => IF j = Len(calls)
                  THEN /\ pc = "SendMultipleTransactions"
                       /\ curShard = calls[j].shard
                       /\ cands[idx] = ObserversOfPost(j)[EarlierPosts(j) + 2]
                  ELSE /\ calls[j + 1].shard = calls[j].shard
                       /\ calls[j + 1].body = calls[j].body
                       /\ calls[j + 1].obs = ObserversOfPost(j)[EarlierPosts(j) + 2]
      /\ MultiReturned =>
           \A s \in ShardGroups :
             (GroupIndices(s) \cap DOMAIN result.TxsHashes = {})
               <=> (\/ OkPosts(s) = {}
                    \/ DOMAIN calls[FirstOkPost(s)].resp.body.TxsHashes = {})

\* shard 0's first observer answers 500, its second accepts the group
C12_Witness ==
    /\ MultiReturned
    /\ Len(calls) = 2
    /\ calls[1].obs = ObsA
    /\ calls[1].resp.code = StatusInternalServerError
    /\ calls[2].obs = ObsB
    /\ OkReply(calls[2].resp)
    /\ calls[2].resp.body.NumOfTxs = 2
    /\ result.NumOfTxs = 2
    /\ GroupIndices(0) \cap DOMAIN result.TxsHashes # {}

-----------------------------------------------------------------------------
(* Properties of GetAccount *)

\* the request is a GetAccount whose address has a shard with an observer list
AccountTraversal ==
    /\ op = "GetAccount"
    /\ getObserversForAddress(req.address).err = Nil

\* the observers of the address's shard, in inventory order
AccountObservers == getObserversForAddress(req.address).list

\* C13: GetAccount's failover: when observers 1..k-1 of the address's shard
\* each answer 404 or 408 and observer k answers 200 without error, the
\* method returns observer k's account data with a nil error and calls no
\* observer after k; the calls go to the shard's observers in order, and after
\* skip answers only the traversal stands at the next observer.
C13_AccountFailover ==
    AccountTraversal =>
      /\ CalledInOrder(AccountObservers)
      /\ (AllSkipped(Len(calls)) /\ Len(calls) < Len(AccountObservers))
           => /\ pc = "GetAccount"
              /\ cands = AccountObservers
              /\ idx = Len(calls) + 1
      /\ \A k \in 1..Len(calls) :
           (AllSkipped(k - 1) /\ OkReply(calls[k].resp))
             => /\ pc = "done"
                /\ result = AccountResult(AccountPtr(calls[k].resp.body.AccountData), Nil)
                /\ Len(calls) = k

C13_Witness ==
    /\ AccountTraversal
    /\ pc = "done"
    /\ Len(calls) = 2
    /\ calls[1].obs = ObsA
    /\ calls[1].resp.code = StatusRequestTimeout
    /\ calls[2].obs = ObsB
    /\ OkReply(calls[2].resp)
    /\ result = AccountResult(AccountPtr(AccountData("7")), Nil)

\* C14: GetAccount's fatal outcome: when the first observer that does not
\* answer 404 or 408 answers a non-2xx status, the method returns a failure
\* that carries that observer's error, and calls no observer after it.
C14_AccountFatal ==
    AccountTraversal =>
      \A k \in 1..Len(calls) :
        (AllSkipped(k - 1) /\ Non2xx(calls[k].resp) /\ ~SkipReply(calls[k].resp))
          => /\ pc = "done"
             /\ result = AccountResult(NilAccount, calls[k].resp.err)
             /\ Len(calls) = k

-----------------------------------------------------------------------------
(* Properties of TransactionCostRequest *)

\* the request is a TransactionCostRequest of a valid transaction
CostTraversal ==
    /\ op = "TransactionCostRequest"
    /\ checkTransactionFields(req.tx) = Nil

OutsideMetachain(observer) == observer.ShardId # MetachainShardId

\* GetAllObservers() without the metachain's observers, in its order
ShardObservers == SelectSeq(GetAllObservers, OutsideMetachain)

\* C17: TransactionCostRequest calls no observer of the metachain; over the
\* other observers of GetAllObservers(), in order, the first answer of 200
\* without error returns its cost, a 404 or 408 leads to the next observer,
\* any other answer returns its error at once, and when every such observer
\* answered 404 or 408, or there is none, the method returns ErrSendingRequest.
C17_CostSkipsMetachain ==
    CostTraversal =>
      /\ \A j \in 1..Len(calls) : calls[j].obs.ShardId # MetachainShardId
      /\ CalledInOrder(ShardObservers)
      /\ (AllSkipped(Len(calls)) /\ Len(calls) < Len(ShardObservers))
           => /\ pc = "TransactionCostRequest"
              /\ cands[idx] = ShardObservers[Len(calls) + 1]
      /\ (AllSkipped(Len(calls)) /\ Len(calls) = Len(ShardObservers))
           => /\ pc = "done"
              /\ result = CostResult("", ErrSendingRequest)
      /\ \A k \in 1..Len(calls) :
           /\ (AllSkipped(k - 1) /\ OkReply(calls[k].resp))
                => /\ pc = "done"
                   /\ result = CostResult(ToString(calls[k].resp.body.TxCost), Nil)
                   /\ Len(calls) = k
           /\ (AllSkipped(k - 1) /\ ~SkipReply(calls[k].resp) /\ ~OkReply(calls[k].resp))
                => /\ pc = "done"
                   /\ result = CostResult("", calls[k].resp.err)
                   /\ Len(calls) = k

\* the metachain's observer comes first and is passed over; X answers 404, A the cost
C17_Witness ==
    /\ CostTraversal
    /\ GetAllObservers = <<ObsM, ObsX, ObsA>>
    /\ pc = "done"
    /\ Len(calls) = 2
    /\ calls[1].obs = ObsX
    /\ calls[1].resp.code = StatusNotFound
    /\ calls[2].obs = ObsA
    /\ result = CostResult("50000", Nil)

\* the metachain's observer comes last: after A's 408 nobody is left to ask
C17_WitnessExhausted ==
    /\ CostTraversal
    /\ GetAllObservers = <<ObsA, ObsM>>
    /\ pc = "done"
    /\ Len(calls) = 1
    /\ calls[1].resp.code = StatusRequestTimeout
    /\ result = CostResult("", ErrSendingRequest)

\* the metachain's observer is the only one: no call at all
C17_WitnessOnlyMetachain ==
    /\ CostTraversal
    /\ GetAllObservers = <<ObsM>>
    /\ pc = "done"
    /\ calls = <<>>
    /\ result = CostResult("", ErrSendingRequest)

-----------------------------------------------------------------------------
(* Properties of GetTransaction and GetTransactionByHashAndSenderAddress *)

\* C18: GetTransaction fails on exhaustion: when it has returned and no
\* observer of GetAllObservers() answered 200 without error (the last one may
\* have answered a non-200 status with a nil error, the list may be empty), it
\* has returned a nil transaction and an error that is not nil.
C18_GetTransactionFails ==
    (op = "GetTransaction" /\ pc = "done" /\ NoneOk(1, Len(calls)))
      => /\ result.tx = NilTx
         /\ result.err # Nil

\* the request is one of the two reads and its observer list could be built
ReadTraversal ==
    \/ op = "GetTransaction"
    \/ /\ op = "GetTransactionByHashAndSenderAddress"
       /\ getShardByAddress(req.sndAddr).err = Nil
       /\ GetObservers(ShardOf(req.sndAddr)).err = Nil

\* the list the read ranges over
ReadCandidates ==
    IF op = "GetTransaction" THEN GetAllObservers
                             ELSE GetObservers(ShardOf(req.sndAddr)).list

\* C19: the reads' skip policy: in GetTransaction and
\* GetTransactionByHashAndSenderAddress no answer ends the traversal but a 200
\* without error: after answers that are a non-200 status (400 and 500 too) or
\* carry an error, the next observer of the list is called; the result is the
\* transaction of the first observer, in list order, that answers 200 without
\* error, and no observer is called after it.
C19_ReadSkipPolicy ==
    ReadTraversal =>
      /\ CalledInOrder(ReadCandidates)
      /\ (NoneOk(1, Len(calls)) /\ Len(calls) < Len(ReadCandidates))
           => /\ pc = op
              /\ cands[idx] = ReadCandidates[Len(calls) + 1]
      /\ \A k \in 1..Len(calls) :
           HitAt(k)
             => /\ pc = "done"
                /\ result.tx = TxPtr(calls[k].resp.body.Transaction)
                /\ result.err = Nil
                /\ Len(calls) = k

\* GetTransaction: a 400, a 500 and a 200 that could not be decoded, then a hit
C19_Witness ==
    /\ op = "GetTransaction"
    /\ pc = "done"
    /\ Len(calls) = 4
    /\ calls[1].resp.code = StatusBadRequest
    /\ calls[2].resp.code = StatusInternalServerError
    /\ calls[3].resp = Reply(StatusOK, ErrUnmarshal, NoTxBody)
    /\ HitAt(4)
    /\ result = GetTxResult(TxPtr(calls[4].resp.body.Transaction), Nil)

\* GetTransactionByHashAndSenderAddress: a 500, then a hit
C19_WitnessBySender ==
    /\ op = "GetTransactionByHashAndSenderAddress"
    /\ pc = "done"
    /\ Len(calls) = 2
    /\ calls[1].resp.code = StatusInternalServerError
    /\ HitAt(2)
    /\ result = GetTxBySenderResult(TxPtr(calls[2].resp.body.Transaction), StatusOK, Nil)

\* C20: the outcomes of GetTransactionByHashAndSenderAddress: a sender address
\* that cannot be decoded gives (nil, 400, ErrInvalidSenderAddress) and no
\* upstream call; a shard GetObservers has no list for gives (nil, 500, its
\* error) and no upstream call; the calls go to the observers of the sender's
\* shard only, in their order; and when none of them answers 200 without
\* error the result is (nil, 404, ErrTransactionNotFound).
C20_TxBySenderOutcomes ==
    op = "GetTransactionByHashAndSenderAddress" =>
      /\ getShardByAddress(req.sndAddr).err # Nil
           => /\ pc = "done"
              /\ result = GetTxBySenderResult(NilTx, StatusBadRequest,
                                               ErrInvalidSenderAddress)
              /\ calls = <<>>
      /\ (/\ getShardByAddress(req.sndAddr).err = Nil
          /\ GetObservers(ShardOf(req.sndAddr)).err # Nil)
           => /\ pc = "done"
              /\ result.tx = NilTx
              /\ result.code = StatusInternalServerError
              /\ result.err = GetObservers(ShardOf(req.sndAddr)).err
              /\ result.err # Nil
              /\ calls = <<>>
      /\ ReadTraversal
           => /\ CalledInOrder(ReadCandidates)
              /\ \A j \in 1..Len(calls) : calls[j].obs.ShardId = ShardOf(req.sndAddr)
              /\ (NoneOk(1, Len(calls)) /\ Len(calls) = Len(ReadCandidates))
                   => /\ pc = "done"
                      /\ result = GetTxBySenderResult(NilTx, StatusNotFound,
                                                       ErrTransactionNotFound)

\* both observers of the sender's shard asked, neither has the transaction
C20_Witness ==
    /\ op = "GetTransactionByHashAndSenderAddress"
    /\ req.sndAddr = AddrS1
    /\ pc = "done"
    /\ Len(calls) = 2
    /\ calls[1].obs = ObsX
    /\ calls[2].obs = ObsY
    /\ NoneOk(1, 2)
    /\ result = GetTxBySenderResult(NilTx, StatusNotFound, ErrTransactionNotFound)

C20_WitnessBadSender ==
    /\ op = "GetTransactionByHashAndSenderAddress"
    /\ req.sndAddr = AddrBad
    /\ pc = "done"
    /\ result.code = StatusBadRequest

C20_WitnessMissingShard ==
    /\ op = "GetTransactionByHashAndSenderAddress"
    /\ req.sndAddr = AddrS0
    /\ 0 \notin DOMAIN observers
    /\ pc = "done"
    /\ result = GetTxBySenderResult(NilTx, StatusInternalServerError, ErrMissingObserver)

-----------------------------------------------------------------------------
(* Properties of every traversal *)

\* the methods that range over one list of observers
TraversingMethods ==
    {"GetAccount", "GetValueForKey", "SendTransaction", "TransactionCostRequest",
     "GetTransaction", "GetTransactionByHashAndSenderAddress", "GetTransactionStatus"}

\* the observer list the request selected, empty when it returned before selecting one
RequestCandidates ==
    CASE op \in {"GetAccount", "GetValueForKey"} ->
           getObserversForAddress(req.address).list
      [] op = "SendTransaction" ->
           IF SendTraversal THEN SenderShardObservers ELSE <<>>
      [] op = "TransactionCostRequest" ->
           IF CostTraversal THEN GetAllObservers ELSE <<>>
      [] op \in {"GetTransaction", "GetTransactionByHashAndSenderAddress"} ->
           IF ReadTraversal THEN ReadCandidates ELSE <<>>
      [] op = "GetTransactionStatus" ->
           IF StatusTraversal THEN StatusCandidates ELSE <<>>

Members(list) == { list[i] : i \in 1..Len(list) }

\* the calls a..b went to observers of `list', no observer twice
OncePerObserver(a, b, list) ==
    /\ \A i \in a..b : calls[i].obs \in Members(list)
    /\ \A i, j \in a..b : i # j => calls[i].obs # calls[j].obs

\* C15 as stated: every request of the seven methods visits at most
\* |candidates| observers, candidates being the list it selected, makes exactly
\* one upstream call per visited observer, and then returns.
C15_AsStated ==
    op \in TraversingMethods =>
      /\ Len(calls) <= Len(RequestCandidates)
      /\ OncePerObserver(1, Len(calls), RequestCandidates)
      /\ Len(calls) = Len(RequestCandidates) => pc = "done"

\* GetTransactionStatus has had an answer of 200 without error
StatusHit == op = "GetTransactionStatus" /\ \E k \in 1..Len(calls) : HitAt(k)

\* the number of calls of the traversal of the candidates: up to the first
\* answer of 200 without error for GetTransactionStatus, all of them otherwise
FirstPhase ==
    IF StatusHit THEN CHOOSE k \in 1..Len(calls) : HitAt(k) ELSE Len(calls)

\* the observers of the receiver's shard of GetTransactionStatus's first hit
OverrideObservers == IF StatusHit THEN DestObservers(FirstPhase) ELSE <<>>

\* the most calls the request can have made
CallsBound ==
    IF StatusHit THEN FirstPhase + Len(OverrideObservers)
                 ELSE Len(RequestCandidates)

\* C15 as amended: every request of the seven methods visits at most
\* |candidates| observers in its traversal of the list it selected, with
\* exactly one upstream call per visited observer, and then returns; only
\* GetTransactionStatus calls further: after its first hit, each observer of
\* the hit's receiver shard at most once, so that it makes at most
\* |candidates| + |observers of the receiver's shard| calls.
C15_TraversalBound ==
    op \in TraversingMethods =>
      /\ FirstPhase <= Len(RequestCandidates)
      /\ OncePerObserver(1, FirstPhase, RequestCandidates)
      /\ Len(calls) <= CallsBound
      /\ OncePerObserver(FirstPhase + 1, Len(calls), OverrideObservers)
      /\ Len(calls) = CallsBound => pc = "done"
      /\ pc \notin {"idle", "done"} => idx \in 1..Len(cands)

\* GetTransactionStatus with a sender of shard 0: both candidates asked, then
\* both observers of the receiver's shard
C15_Witness ==
    /\ op = "GetTransactionStatus"
    /\ req.sender = AddrS0
    /\ pc = "done"
    /\ Len(RequestCandidates) = 2
    /\ Len(calls) = 4
    /\ FirstPhase = 2
    /\ calls[3].obs = ObsX
    /\ calls[4].obs = ObsY

\* GetTransactionStatus without a sender: observer A asked in the traversal
\* and again for the receiver's shard
C15_WitnessAskedTwice ==
    /\ op = "GetTransactionStatus"
    /\ req.sender = ""
    /\ Len(calls) = 3
    /\ FirstPhase = 2
    /\ calls[1].obs = ObsA
    /\ calls[3].obs = ObsA

\* GetValueForKey: every observer of the shard asked once, then the return
C15_WitnessValueForKey ==
    /\ op = "GetValueForKey"
    /\ pc = "done"
    /\ Len(RequestCandidates) = 2
    /\ Len(calls) = 2
    /\ result = ValueResult("", ErrSendingRequest)

-----------------------------------------------------------------------------
(* Properties of concurrent requests *)

\* the observers a task's request ranges over, by its address alone
OwnObservers(T) == getObserversForAddress(T.address).list

\* the calls of the task that were answered without error
OwnAnswers(T) == { i \in 1..Len(T.calls) : T.calls[i].resp.err = Nil }

\* what GetAccount returns, by the task's address and the replies to its own calls
OwnOutcome(T) ==
    IF getObserversForAddress(T.address).err # Nil
      THEN AccountResult(NilAccount, getObserversForAddress(T.address).err)
    ELSE IF OwnAnswers(T) # {}
      THEN AccountResult(AccountPtr(T.calls[Len(T.calls)].resp.body.AccountData), Nil)
    ELSE AccountResult(NilAccount, ErrSendingRequest)

\* C16: the traversal is sequential: a request has at most one upstream call
\* in flight; the call in flight goes to the observer at the position after
\* those whose calls have returned, so that the call to position k+1 is issued
\* only after the call to position k returned; and requests running at the
\* same time share nothing they write: a task's list, position, calls and
\* result are those its own address and the replies to its own calls give,
\* whatever the other tasks do.
C16_Sequential ==
    \A t \in Tasks :
      LET T == tasks[t]
      IN  /\ Cardinality(T.inflight) <= 1
          /\ \A c \in T.inflight :
               /\ T.pc = "await"
               /\ c.pos = Len(T.calls) + 1
               /\ c.pos <= Len(OwnObservers(T))
               /\ c.obs = OwnObservers(T)[c.pos]
          /\ Len(T.calls) <= Len(OwnObservers(T))
          /\ \A i \in 1..Len(T.calls) : T.calls[i].obs = OwnObservers(T)[i]
          /\ \A i \in 1..(Len(T.calls) - 1) : i \notin OwnAnswers(T)
          /\ T.pc # "idle" => T.cands = OwnObservers(T)
          /\ T.pc = "await" => T.inflight # {}
          /\ T.pc = "loop" => (T.inflight = {} /\ T.idx = Len(T.calls) + 1)
          /\ T.pc = "done"
               => /\ T.inflight = {}
                  /\ T.result = OwnOutcome(T)
                  /\ (OwnAnswers(T) = {} /\ getObserversForAddress(T.address).err = Nil)
                       => Len(T.calls) = Len(OwnObservers(T))

\* two requests for the same address at once: task 1 waits for its second
\* observer after the first one failed, task 2 waits for its first
C16_Witness ==
    /\ tasks[1].address = AddrS0
    /\ tasks[2].address = AddrS0
    /\ tasks[1].pc = "await"
    /\ tasks[2].pc = "await"
    /\ Len(tasks[1].calls) = 1
    /\ tasks[1].inflight = {InFlight(ObsB, 2)}
    /\ tasks[2].inflight = {InFlight(ObsA, 1)}

\* both requests returned, with different outcomes for the same address
C16_WitnessBothDone ==
    /\ tasks[1].address = AddrS0
    /\ tasks[2].address = AddrS0
    /\ tasks[1].pc = "done"
    /\ tasks[2].pc = "done"
    /\ tasks[1].result = AccountResult(AccountPtr(AccountData("7")), Nil)
    /\ tasks[2].result = AccountResult(NilAccount, ErrSendingRequest)
    /\ Len(tasks[2].calls) = 2

-----------------------------------------------------------------------------
(* Properties of SendMultipleTransactions: the caller's input and the posts *)

\* SendMultipleTransactions has returned, with a response or with an error
MultiDone ==
    /\ op = "SendMultipleTransactions"
    /\ pc = "done"

\* C21: SendMultipleTransactions does not mutate the caller's input: after the
\* call has returned, with a response or with an error, every transaction
\* record the caller passed has the field values, Index included, it had
\* before the call.
C21_InputUnchanged ==
    MultiDone => \A i \in 1..Len(req.txs) : txs[i] = req.txs[i]

-----------------------------------------------------------------------------
(* Properties of the validation of a transaction's fields *)

\* the request is one of the two that validate a single transaction
ValidatingRequest == op \in {"SendTransaction", "TransactionCostRequest"}

\* the fields of the transaction that do not decode, in the order sender,
\* receiver, signature
FailingFields(tx) ==
    SelectSeq(<<[name |-> ErrInvalidSenderAddress.type, bad |-> Decode(tx.Sender).err # Nil],
                [name |-> ErrInvalidReceiverAddress.type, bad |-> Decode(tx.Receiver).err # Nil],
                [name |-> ErrInvalidSignatureHex.type, bad |-> HexDecodeErr(tx.Signature) # Nil]>>,
              LAMBDA f : f.bad)

\* C22: SendTransaction and TransactionCostRequest on a transaction whose
\* sender, receiver or signature does not decode return ErrInvalidTxFields whose
\* message names the first failing field in the order sender, receiver,
\* signature (SendTransaction with status 400), and make no upstream call and
\* no observer lookup.
C22_InvalidFieldsRejected ==
    (ValidatingRequest /\ FailingFields(req.tx) # <<>>) =>
      /\ pc = "done"
      /\ result.err.type = "ErrInvalidTxFields"
      /\ result.err.message = FailingFields(req.tx)[1].name
      /\ op = "SendTransaction" => result.code = StatusBadRequest
      /\ calls = <<>>
      /\ lookups = <<>>

\* SendTransaction: the receiver and the signature are both bad, the receiver
\* is named
C22_Witness ==
    /\ op = "SendTransaction"
    /\ pc = "done"
    /\ Len(FailingFields(req.tx)) = 2
    /\ result.err.message = ErrInvalidReceiverAddress.type
    /\ result.code = StatusBadRequest

\* TransactionCostRequest: a signature of odd length alone is bad
C22_WitnessCost ==
    /\ op = "TransactionCostRequest"
    /\ pc = "done"
    /\ req.tx.Signature = SigOdd
    /\ Len(FailingFields(req.tx)) = 1
    /\ result.err.message = ErrInvalidSignatureHex.type
    /\ result.cost = ""

\* the lookup a valid transaction is followed by, for comparison
C22_WitnessValidLooksUp ==
    /\ ValidatingRequest
    /\ FailingFields(req.tx) = <<>>
    /\ lookups # <<>>

\* the transaction a POST carried is the caller's entry i, Index apart
CarriesEntry(posted, i) ==
    /\ posted.Sender = req.txs[i].Sender
    /\ posted.Receiver = req.txs[i].Receiver
    /\ posted.Signature = req.txs[i].Signature

\* none of the caller's transactions has fields that all decode
NoneValid == \A i \in 1..Len(req.txs) : FailingFields(req.txs[i]) # <<>>

\* C25: SendMultipleTransactions never transmits an invalid transaction: every
\* transaction in the body of any POST is one of the caller's whose sender,
\* receiver and signature decode; when none of the caller's transactions is
\* valid, the empty array included, it returns the empty response with
\* ErrNoValidTransactionToSend without any observer lookup or upstream call.
C25_OnlyValidPosted ==
    op = "SendMultipleTransactions" =>
      /\ \A j \in 1..Len(calls) :
           \A k \in 1..Len(calls[j].body) :
             /\ FailingFields(calls[j].body[k]) = <<>>
             /\ \E i \in 1..Len(req.txs) : CarriesEntry(calls[j].body[k], i)
      /\ NoneValid =>
           /\ pc = "done"
           /\ result = MultiResult(0, <<>>, ErrNoValidTransactionToSend)
           /\ calls = <<>>
           /\ lookups = <<>>

\* an accepted POST of the one valid transaction of an array of three
C25_Witness ==
    /\ MultiReturned
    /\ Len(req.txs) = 3
    /\ Cardinality({ i \in 1..3 : FailingFields(req.txs[i]) # <<>> }) = 2
    /\ Len(calls) = 1
    /\ Len(calls[1].body) = 1
    /\ OkReply(calls[1].resp)

\* two invalid transactions and nothing else
C25_WitnessNoneValid ==
    /\ MultiDone
    /\ Len(req.txs) = 2
    /\ NoneValid
    /\ result.err = ErrNoValidTransactionToSend

\* the empty array
C25_WitnessEmpty ==
    /\ MultiDone
    /\ req.txs = <<>>
    /\ result.err = ErrNoValidTransactionToSend

\* lookup l of the request is a GetObservers that failed
LookupFailed(l) == GetObservers(lookups[l].shard).err # Nil

\* the shards whose groups were looked up before lookup l
LookedUpBefore(l) == { lookups[i].shard : i \in 1..(l - 1) }

\* C26: SendMultipleTransactions is all-or-nothing on a routing failure: when
\* GetObservers fails for a shard group, it returns the empty response
\* (NumOfTxs 0, no hashes) with ErrMissingObserver, also when earlier groups
\* were posted and accepted; the failed group and the groups not yet ranged
\* over are neither looked up nor posted, and a response without error means
\* that no group's lookup failed.
C26_AllOrNothing ==
    op = "SendMultipleTransactions" =>
      /\ \A l \in 1..Len(lookups) :
           LookupFailed(l) =>
             /\ pc = "done"
             /\ result.kind = "multi"
             /\ result.NumOfTxs = 0
             /\ result.TxsHashes = <<>>
             /\ result.err = ErrMissingObserver
             /\ l = Len(lookups)
             /\ \A j \in 1..Len(calls) : calls[j].shard \in LookedUpBefore(l)
      /\ MultiReturned =>
           \A s \in ShardGroups : GetObservers(s).err = Nil

\* shard 1's group was accepted, then shard 0 has no observers: the accepted
\* transaction is not reported
C26_Witness ==
    /\ MultiDone
    /\ Len(calls) = 1
    /\ calls[1].shard = 1
    /\ OkReply(calls[1].resp)
    /\ calls[1].resp.body.NumOfTxs = 1
    /\ DOMAIN calls[1].resp.body.TxsHashes # {}
    /\ Len(lookups) = 2
    /\ LookupFailed(2)
    /\ result = MultiResult(0, <<>>, ErrMissingObserver)

\* the failing group is ranged over first: the other group is never posted
C26_WitnessNotPosted ==
    /\ MultiDone
    /\ ShardGroups = {0, 1}
    /\ Len(lookups) = 1
    /\ LookupFailed(1)
    /\ calls = <<>>

\* the positions in shard s's group that hold the caller's entry i
PlacesIn(s, i) == { k \in 1..Len(groups[s]) : groups[s][k] = i }

\* the shard ComputeShardId gives for the decoded sender of the caller's entry i
SenderShard(i) == ComputeShardId(Decode(req.txs[i].Sender).bytes).shard

\* the transactions of shard s's group, in the group's order
GroupBody(s) == [k \in 1..Len(groups[s]) |-> txs[groups[s][k]]]

\* C27: groupTxsByShard places every valid transaction in exactly one group,
\* the one keyed by ComputeShardId of its decoded sender, and keeps the input's
\* relative order inside each group; each group is posted only to observers
\* that GetObservers, called for the group's shard id, returned.
C27_GroupedBySenderShard ==
    (op = "SendMultipleTransactions" /\ ~NoneValid) =>
      /\ \A i \in 1..Len(req.txs) :
           FailingFields(req.txs[i]) = <<>> =>
             /\ SenderShard(i) \in ShardGroups
             /\ \A s \in ShardGroups :
                  Cardinality(PlacesIn(s, i)) = IF s = SenderShard(i) THEN 1 ELSE 0
      /\ \A s \in ShardGroups :
           \A k, l \in 1..Len(groups[s]) : k < l => groups[s][k] < groups[s][l]
      /\ \A j \in 1..Len(calls) :
           /\ calls[j].shard \in ShardGroups
           /\ calls[j].body = GroupBody(calls[j].shard)
           /\ \E l \in 1..Len(lookups) : lookups[l] = GetObserversLookup(calls[j].shard)
           /\ calls[j].obs \in Members(GetObservers(calls[j].shard).list)

\* senders of shards 0, 1, 0: two groups, shard 0's keeps the order of the
\* input, and both are posted to their own shard's observers
C27_Witness ==
    /\ MultiReturned
    /\ ShardGroups = {0, 1}
    /\ groups[0] = <<1, 3>>
    /\ groups[1] = <<2>>
    /\ Len(calls) = 2
    /\ calls[1].shard = 1 /\ calls[1].obs = ObsX
    /\ calls[2].shard = 0 /\ calls[2].obs = ObsA
    /\ Len(calls[2].body) = 2

\* the call was answered 200 without error with a key that is no position of
\* the posted group
KeyOutsideGroup(j) ==
    /\ OkReply(calls[j].resp)
    /\ \E k \in DOMAIN calls[j].resp.body.TxsHashes :
         k < 0 \/ k >= Len(calls[j].body)

\* C28: SendMultipleTransactions is safe for every observer reply: whatever a
\* reply of 200 without error carries, a key of TxsHashes that is negative or
\* not less than the size of the posted group included, the call ends with a
\* response or a typed error and makes no out-of-range access to the group.
C28_NoOutOfRangeAccess ==
    (op = "SendMultipleTransactions" /\ pc = "done" /\ \E j \in 1..Len(calls) : KeyOutsideGroup(j))
      => result.kind = "multi"

-----------------------------------------------------------------------------
(* Properties of the URL parameters *)

\* the parameter is in the query string with the value v
GivenAs(query, name, v) == name \in DOMAIN query /\ query[name] = v

\* the parameter is not in the query string
Absent(query, name) == name \notin DOMAIN query

\* the values that are neither "true" nor "false" nor empty
OtherValues == UrlValues \ {"true", "false", ""}

\* C24: parseBoolUrlParam returns (true, nil) for "true", (false, nil) for
\* "false", for a parameter present with an empty value and for an absent
\* parameter, and (false, error) for every other value;
\* parseTransactionSimulationOptions yields CheckSignature = true when
\* checkSignature is absent (or present without a value, or "true"), false when
\* it is "false", and an error with empty options for any other value.
C24_BoolUrlParams ==
    /\ (op = "parseBoolUrlParam" /\ pc = "done") =>
         /\ GivenAs(req.query, req.name, "true") => (result.value /\ result.err = Nil)
         /\ (\/ GivenAs(req.query, req.name, "false")
             \/ GivenAs(req.query, req.name, "")
             \/ Absent(req.query, req.name)) => (~result.value /\ result.err = Nil)
         /\ (\E v \in OtherValues : GivenAs(req.query, req.name, v))
              => (~result.value /\ result.err # Nil)
    /\ (op = "parseTransactionSimulationOptions" /\ pc = "done") =>
         /\ (\/ Absent(req.query, UrlParameterCheckSignature)
             \/ GivenAs(req.query, UrlParameterCheckSignature, "")
             \/ GivenAs(req.query, UrlParameterCheckSignature, "true"))
              => (result.options.CheckSignature /\ result.err = Nil)
         /\ GivenAs(req.query, UrlParameterCheckSignature, "false")
              => (~result.options.CheckSignature /\ result.err = Nil)
         /\ (\E v \in OtherValues : GivenAs(req.query, UrlParameterCheckSignature, v))
              => (result.options = NoSimulationOptions /\ result.err # Nil)

\* `checkSignature=foobar&onFinalBlock': the second is read, present and empty
C24_Witness ==
    /\ op = "parseBoolUrlParam"
    /\ pc = "done"
    /\ GivenAs(req.query, UrlParameterCheckSignature, "foobar")
    /\ GivenAs(req.query, req.name, "")
    /\ result = BoolResult(FALSE, Nil)

\* `checkSignature=foobar' read: an error
C24_WitnessOther ==
    /\ op = "parseBoolUrlParam"
    /\ pc = "done"
    /\ GivenAs(req.query, req.name, "foobar")
    /\ result.err # Nil

\* the simulation's options of a query string without checkSignature
C24_WitnessDefault ==
    /\ op = "parseTransactionSimulationOptions"
    /\ pc = "done"
    /\ Absent(req.query, UrlParameterCheckSignature)
    /\ result.options.CheckSignature

\* the simulation's options of `checkSignature=1'
C24_WitnessRejected ==
    /\ op = "parseTransactionSimulationOptions"
    /\ pc = "done"
    /\ GivenAs(req.query, UrlParameterCheckSignature, "1")
    /\ result.err # Nil
    /\ result.options = NoSimulationOptions

-----------------------------------------------------------------------------
(* Properties of the handlers of the accounts group *)

\* a handler of the accounts group has served the request
AccountsGroupServed == op \in DOMAIN RouteParams /\ pc = "done"

\* the handlers that take the account query options
TakesOptions == DOMAIN RouteParams \ {"getShard", "getTransactions"}

\* a path parameter of the request is empty or, the nonce, not a number
BadPathParameter ==
    \E n \in DOMAIN req.params :
      IF n = "nonce" THEN FetchNonceFromRequest(req).err # Nil
                     ELSE req.params[n] = ""

\* the account query options of the request do not parse
BadQueryOptions ==
    op \in TakesOptions /\ parseAccountQueryOptions(req.query).err # Nil

\* the return code of the envelope of a response, "none" for a body without one
ReturnCodeOf(response) ==
    IF "code" \in DOMAIN response.body THEN response.body.code ELSE "none"

\* the facade was called and returned an error
FacadeFailed == calls # <<>> /\ calls[1].ret.err # Nil

\* C23: the handlers of the accounts group short-circuit on validation: for
\* every handler, when the address or another path parameter of the route (key,
\* tokenIdentifier, role, nonce) is empty or does not parse, or the account
\* query options do not parse, the handler responds HTTP 400 request_error and
\* the facade is never called; when the facade returns an error the handler
\* responds HTTP 500 internal_issue.
C23_ValidationShortCircuits ==
    AccountsGroupServed =>
      /\ (BadPathParameter \/ BadQueryOptions) =>
           /\ calls = <<>>
           /\ written # <<>>
           /\ written[1].status = StatusBadRequest
           /\ ReturnCodeOf(written[1]) = ReturnCodeRequestError
      /\ FacadeFailed =>
           /\ written # <<>>
           /\ written[1].status = StatusInternalServerError
           /\ ReturnCodeOf(written[1]) = ReturnCodeInternalError

\* C29: exactly one response per request: every handler of the accounts group
\* writes exactly one response on every path, and writes no success body after
\* the error response of a failure of the facade.
C29_ExactlyOneResponse ==
    AccountsGroupServed =>
      /\ Len(written) = 1
      /\ FacadeFailed => \A i \in 1..Len(written) : written[i].status # StatusOK

=============================================================================
